---- MODULE Spec2Model ----
(***************************************************************************)
(* Model of the attendee identity resolution of CalendarAgent              *)
(* (src/calendar_agent.py): the email name heuristic, the directory        *)
(* (People API) and mailbox (Gmail API) lookups, and the two extraction    *)
(* handlers extract_attendee_info and extract_attendee_info_enhanced.      *)
(*                                                                         *)
(* Python strings are modelled as sequences of one-character strings, so   *)
(* that splitting, stripping and case conversion are computed character by *)
(* character as the code computes them.  The empty string is <<>>.         *)
(***************************************************************************)
EXTENDS Integers, Sequences, FiniteSets, TLC

----------------------------------------------------------------------------
(* Characters and the str methods the code uses                            *)

LowerChars ==
  <<"a","b","c","d","e","f","g","h","i","j","k","l","m",
    "n","o","p","q","r","s","t","u","v","w","x","y","z">>

UpperChars ==
  <<"A","B","C","D","E","F","G","H","I","J","K","L","M",
    "N","O","P","Q","R","S","T","U","V","W","X","Y","Z">>

DigitChars ==
  {"0","1","2","3","4","5","6","7","8","9"}

LowerSet ==
  {LowerChars[k] : k \in 1..Len(LowerChars)}

UpperSet ==
  {UpperChars[k] : k \in 1..Len(UpperChars)}

UpperOf ==
  [c \in LowerSet |-> UpperChars[CHOOSE k \in 1..Len(LowerChars) : LowerChars[k] = c]]

LowerOf ==
  [c \in UpperSet |-> LowerChars[CHOOSE k \in 1..Len(UpperChars) : UpperChars[k] = c]]

SeparatorChars ==
  {".", "_", "-"}

WhitespaceChars ==
  {" "}

QuoteChars ==
  {"\"", "'"}

IsLower(c) ==
  c \in LowerSet

IsUpper(c) ==
  c \in UpperSet

IsCased(c) ==
  IsLower(c) \/ IsUpper(c)

CharUpper(c) ==
  IF IsLower(c) THEN UpperOf[c] ELSE c

CharLower(c) ==
  IF IsUpper(c) THEN LowerOf[c] ELSE c

\* str.upper()
StrUpper(s) ==
  [k \in 1..Len(s) |-> CharUpper(s[k])]

\* str.lower()
StrLower(s) ==
  [k \in 1..Len(s) |-> CharLower(s[k])]

\* str.title(): a cased character is upper-cased when the character before
\* it is not cased (or there is none) and lower-cased otherwise.
StrTitle(s) ==
  [k \in 1..Len(s) |->
     IF k > 1 /\ IsCased(s[k-1]) THEN CharLower(s[k]) ELSE CharUpper(s[k])]

\* c in s, for a single character c
HasChar(s, c) ==
  \E k \in 1..Len(s) : s[k] = c

\* s[n:] for 0 <= n
DropFirst(s, n) ==
  IF n >= Len(s) THEN <<>> ELSE SubSeq(s, n + 1, Len(s))

\* s[:n] for 0 <= n
TakeFirst(s, n) ==
  IF n >= Len(s) THEN s ELSE SubSeq(s, 1, n)

\* s.startswith(p)
StartsWith(s, p) ==
  Len(s) >= Len(p) /\ SubSeq(s, 1, Len(p)) = p

\* the 0-based index of the first occurrence of p in s at or after index k,
\* -1 if none
RECURSIVE FindFrom(_, _, _)
FindFrom(s, p, k) ==
  IF k + Len(p) > Len(s) THEN -1
  ELSE IF SubSeq(s, k + 1, k + Len(p)) = p THEN k
  ELSE FindFrom(s, p, k + 1)

\* s.find(p): the 0-based index of the first occurrence of p in s, -1 if none
StrFind(s, p) ==
  FindFrom(s, p, 0)

\* p in s, for a substring p
Contains(s, p) ==
  StrFind(s, p) >= 0

\* the length of the longest suffix of s made of characters of set cs
RECURSIVE TrailingRun(_, _)
TrailingRun(s, cs) ==
  IF s = <<>> \/ s[Len(s)] \notin cs
    THEN 0
    ELSE 1 + TrailingRun(SubSeq(s, 1, Len(s) - 1), cs)

\* the length of the longest prefix of s made of characters of set cs
RECURSIVE LeadingRun(_, _)
LeadingRun(s, cs) ==
  IF s = <<>> \/ s[1] \notin cs
    THEN 0
    ELSE 1 + LeadingRun(Tail(s), cs)

\* re.sub(r'<cs>+$', '', s): remove the trailing run of characters of cs
StripTrailing(s, cs) ==
  SubSeq(s, 1, Len(s) - TrailingRun(s, cs))

\* s.strip(cs): remove the leading and the trailing run of characters of cs
StrStrip(s, cs) ==
  LET t == StripTrailing(s, cs)
  IN  DropFirst(t, LeadingRun(t, cs))

\* s.split(c): the pieces of s between the occurrences of the character c
\* (empty pieces are kept; a string without c is one piece)
RECURSIVE StrSplit(_, _)
StrSplit(s, c) ==
  LET k == StrFind(s, <<c>>)
  IN  IF k < 0
        THEN <<s>>
        ELSE <<TakeFirst(s, k)>> \o StrSplit(DropFirst(s, k + 1), c)

\* ' '.join(parts)
RECURSIVE JoinSpace(_)
JoinSpace(parts) ==
  IF parts = <<>> THEN <<>>
  ELSE IF Len(parts) = 1 THEN parts[1]
  ELSE parts[1] \o <<" ">> \o JoinSpace(Tail(parts))

NonEmptyStr(p) ==
  p # <<>>

\* ' '.join(part.title() for part in parts if part)
JoinTitledParts(parts) ==
  LET kept == SelectSeq(parts, NonEmptyStr)
  IN  JoinSpace([k \in 1..Len(kept) |-> StrTitle(kept[k])])

----------------------------------------------------------------------------
(* String literals of the code                                             *)

Unknown ==
  <<"U","n","k","n","o","w","n">>

common_prefixes ==
  << <<"m","r">>, <<"m","s">>, <<"d","r">>, <<"p","r","o","f">> >>

common_locations ==
  << <<"i","n">>, <<"s","a","n">>, <<"l","o","s">>, <<"n","e","w">>,
     <<"n","o","r","t","h">>, <<"s","o","u","t","h">>,
     <<"e","a","s","t">>, <<"w","e","s","t">> >>

----------------------------------------------------------------------------
(* The email name heuristic                                                *)

\* re.search(r'[a-z][A-Z]', name)
HasCamelBoundary(name) ==
  \E k \in 1..(Len(name) - 1) : IsLower(name[k]) /\ IsUpper(name[k+1])

\* re.findall(r'[A-Z][a-z]*|[a-z]+', name): scanning from the left, an
\* upper-case letter with the lower-case run after it, or a lower-case run;
\* any other character is skipped.
RECURSIVE CamelParts(_)
CamelParts(name) ==
  IF name = <<>> THEN <<>>
  ELSE IF IsUpper(name[1])
    THEN LET n == 1 + LeadingRun(Tail(name), LowerSet)
         IN  <<TakeFirst(name, n)>> \o CamelParts(DropFirst(name, n))
  ELSE IF IsLower(name[1])
    THEN LET n == LeadingRun(name, LowerSet)
         IN  <<TakeFirst(name, n)>> \o CamelParts(DropFirst(name, n))
  ELSE CamelParts(Tail(name))

\* the loop over common_prefixes: the result of the first prefix that
\* matches, <<>> when none does
RECURSIVE PrefixSplit(_, _)
PrefixSplit(name, k) ==
  IF k > Len(common_prefixes) THEN <<>>
  ELSE LET prefix == common_prefixes[k]
       IN  IF StartsWith(StrLower(name), prefix) /\ Len(name) > Len(prefix)
             THEN StrTitle(prefix) \o <<" ">> \o StrTitle(DropFirst(name, Len(prefix)))
             ELSE PrefixSplit(name, k + 1)

\* the loop over common_locations: the result of the first location that
\* is accepted, <<>> when none is
RECURSIVE LocationSplit(_, _)
LocationSplit(name, k) ==
  IF k > Len(common_locations) THEN <<>>
  ELSE LET loc == common_locations[k]
           idx == StrFind(StrLower(name), loc)
       IN  IF idx >= 0 /\ Len(name) > Len(loc) + 3 /\ idx > 2
             THEN StrTitle(TakeFirst(name, idx)) \o <<" ">> \o StrTitle(DropFirst(name, idx))
             ELSE LocationSplit(name, k + 1)

_smart_split_name(name) ==
  LET byPrefix   == PrefixSplit(name, 1)
      byLocation == LocationSplit(name, 1)
  IN  IF HasCamelBoundary(name) THEN JoinSpace(CamelParts(name))
      ELSE IF byPrefix # <<>> THEN byPrefix
      ELSE IF byLocation # <<>> THEN byLocation
      ELSE name

\* A stripping that removes the trailing separators before the trailing
\* digits; C20 must reject it.
StrippedLocalPart_separators_first(email) ==
  StripTrailing(StripTrailing(StrSplit(email, "@")[1], SeparatorChars), DigitChars)

\* email.split('@')[0], then the two re.sub calls
StrippedLocalPart(email) ==
  StripTrailing(StripTrailing(StrSplit(email, "@")[1], DigitChars), SeparatorChars)

\* the '.' / '_' / '-' branches shared by both copies of the heuristic
SeparatorName(local_part, sep) ==
  LET parts == StrSplit(local_part, sep)
  IN  IF sep = "." /\ Len(parts) = 2
        THEN IF Len(parts[1]) = 1
               THEN StrUpper(parts[1]) \o <<" ">> \o StrTitle(parts[2])
               ELSE StrTitle(parts[1]) \o <<" ">> \o StrTitle(parts[2])
        ELSE JoinTitledParts(parts)

\* A heuristic that looks for '_' before '.'; C18 must reject it.
_extract_name_from_email_underscore_first(email) ==
  IF email = <<>> THEN Unknown
  ELSE LET local_part == StrippedLocalPart(email)
       IN  IF HasChar(local_part, "_") THEN SeparatorName(local_part, "_")
           ELSE IF HasChar(local_part, ".") THEN SeparatorName(local_part, ".")
           ELSE IF HasChar(local_part, "-") THEN SeparatorName(local_part, "-")
           ELSE _smart_split_name(StrTitle(local_part))

\* CalendarAgent._extract_name_from_email
_extract_name_from_email(email) ==
  IF email = <<>> THEN Unknown
  ELSE LET local_part == StrippedLocalPart(email)
       IN  IF HasChar(local_part, ".") THEN SeparatorName(local_part, ".")
           ELSE IF HasChar(local_part, "_") THEN SeparatorName(local_part, "_")
           ELSE IF HasChar(local_part, "-") THEN SeparatorName(local_part, "-")
           ELSE _smart_split_name(StrTitle(local_part))

\* AttendeeInfo._extract_name_from_email: the same without the smart split
AttendeeInfo_extract_name_from_email(email) ==
  IF email = <<>> THEN Unknown
  ELSE LET local_part == StrippedLocalPart(email)
       IN  IF HasChar(local_part, ".") THEN SeparatorName(local_part, ".")
           ELSE IF HasChar(local_part, "_") THEN SeparatorName(local_part, "_")
           ELSE IF HasChar(local_part, "-") THEN SeparatorName(local_part, "-")
           ELSE StrTitle(local_part)

\* AttendeeInfo(name=..., email=...) after __post_init__
AttendeeInfo(name, email) ==
  [name |-> name,
   email |-> email,
   display_name |->
     IF name # <<>> THEN name
     ELSE IF email # <<>> THEN AttendeeInfo_extract_name_from_email(email)
     ELSE Unknown]

----------------------------------------------------------------------------
(* Optional[str] results and the responses of the external transports      *)

\* A value returned by a lookup: Python None, a str, or an exception that
\* escapes the function.
NoneVal ==
  [kind |-> "none", val |-> <<>>]

StrVal(s) ==
  [kind |-> "str", val |-> s]

Raised ==
  [kind |-> "exc", val |-> <<>>]

\* Python truthiness of an Optional[str]: `if api_name:`
Truthy(r) ==
  r.kind = "str" /\ r.val # <<>>

\* the first element of a sequence of lookup results that is not None
RECURSIVE FirstReturn(_)
FirstReturn(rs) ==
  IF rs = <<>> THEN NoneVal
  ELSE IF rs[1].kind # "none" THEN rs[1]
  ELSE FirstReturn(Tail(rs))

\* One contact of a searchContacts response, lines 440-459: the value
\* returned while this contact is examined, None when the loop moves on.
ContactName(contact, email) ==
  IF /\ \E k \in 1..Len(contact.emailAddresses) :
            StrLower(contact.emailAddresses[k]) = StrLower(email)
     /\ contact.names # <<>>
    THEN LET name_data == contact.names[1]
         IN  IF name_data.displayName # <<>>
               THEN StrVal(name_data.displayName)
             ELSE IF name_data.givenName # <<>> \/ name_data.familyName # <<>>
               THEN StrVal(StrStrip(name_data.givenName \o <<" ">> \o name_data.familyName,
                                    WhitespaceChars))
             ELSE NoneVal
    ELSE NoneVal

\* A directory lookup that lets the transport's exception escape instead of
\* catching it at lines 464-466; C7 must reject it.
get_contact_name_from_people_api_propagating(people_service, email, resp) ==
  IF ~people_service THEN NoneVal
  ELSE IF resp.raises THEN Raised
  ELSE FirstReturn([k \in 1..Len(resp.results) |-> ContactName(resp.results[k], email)])

\* resp is the outcome of people().searchContacts(...).execute():
\* [raises |-> TRUE] or [raises |-> FALSE, results |-> contacts]
get_contact_name_from_people_api(people_service, email, resp) ==
  IF ~people_service THEN NoneVal
  ELSE IF resp.raises THEN NoneVal
  ELSE FirstReturn([k \in 1..Len(resp.results) |-> ContactName(resp.results[k], email)])

FromName ==
  <<"f","r","o","m">>

\* One From header value, lines 497-511: the value returned for it, None
\* when the loop moves on to the next header.
ParseFromHeader(from_field, email) ==
  IF HasChar(from_field, "<") /\ HasChar(from_field, ">")
    THEN LET name_part == StrStrip(StrSplit(from_field, "<")[1], WhitespaceChars)
         IN  IF name_part # <<>> /\ name_part # email
               THEN StrVal(StrStrip(name_part, QuoteChars))
               ELSE NoneVal
  ELSE IF HasChar(from_field, "(") /\ HasChar(from_field, ")")
    THEN LET name_part ==
               StrStrip(StrSplit(StrSplit(from_field, "(")[2], ")")[1], WhitespaceChars)
         IN  IF name_part # <<>> /\ name_part # email
               THEN StrVal(name_part)
               ELSE NoneVal
  ELSE NoneVal

\* One message of the list, lines 484-511.  msg is the outcome of
\* messages().get(...).execute(): [raises |-> TRUE] or
\* [raises |-> FALSE, headers |-> sequence of [name, value]].
MessageName(msg, email) ==
  IF msg.raises THEN Raised
  ELSE FirstReturn([k \in 1..Len(msg.headers) |->
         IF StrLower(msg.headers[k].name) = FromName
           THEN ParseFromHeader(msg.headers[k].value, email)
           ELSE NoneVal])

\* resp is the outcome of messages().list(...).execute() together with the
\* outcomes of the messages().get calls for the listed messages, most
\* recent first.  Any exception is caught by the except clause, line 515.
get_contact_name_from_gmail_api(gmail_service, email, resp) ==
  IF ~gmail_service THEN NoneVal
  ELSE IF resp.raises THEN NoneVal
  ELSE LET r == FirstReturn([k \in 1..Len(resp.messages) |->
                               MessageName(resp.messages[k], email)])
       IN  IF r.kind = "exc" THEN NoneVal ELSE r

----------------------------------------------------------------------------
(* Bounds and the inputs the handlers are run on                           *)

\* the largest number of attendees in a raw event
MaxAttendees ==
  2

\* how many times process_meeting is run on one event
MaxRuns ==
  2

Email_js ==
  <<"j",".","s","@","d">>

Email_12 ==
  <<"1","2","@","d">>

Name_dn ==
  <<"D","n">>

Name_nm ==
  <<"N","m">>

Name_cn ==
  <<"C","n">>

RawAttendee(email, displayName, name, cn) ==
  [email |-> email, displayName |-> displayName, name |-> name, cn |-> cn]

\* the raw attendee records: each email without any name field, an email
\* with the name fields filled from some position of the order displayName,
\* name, cn on, and a record that has a name but no email
RawAttendees ==
  {RawAttendee(Email_js, <<>>, <<>>, <<>>),
   RawAttendee(Email_12, <<>>, <<>>, <<>>),
   RawAttendee(Email_js, Name_dn, Name_nm, Name_cn),
   RawAttendee(Email_js, <<>>, Name_nm, Name_cn),
   RawAttendee(Email_js, <<>>, <<>>, Name_cn),
   RawAttendee(<<>>, Name_dn, <<>>, <<>>)}

RawOrganizer(email, displayName, name) ==
  [email |-> email, displayName |-> displayName, name |-> name]

\* the raw organizer records: the organizer with every field empty (also
\* what event.get('organizer', {}) gives for an event without organizer),
\* and an organizer with an email and the name fields filled from some
\* position of the order displayName, name on (or not at all)
RawOrganizers ==
  {RawOrganizer(<<>>, <<>>, <<>>),
   RawOrganizer(Email_js, <<>>, <<>>),
   RawOrganizer(Email_js, <<>>, Name_nm),
   RawOrganizer(Email_js, Name_dn, Name_nm)}

RECURSIVE SeqsUpTo(_, _)
SeqsUpTo(S, n) ==
  IF n = 0 THEN {<<>>}
  ELSE LET shorter == SeqsUpTo(S, n - 1)
       IN  shorter \cup {Append(q, x) : q \in {t \in shorter : Len(t) = n - 1}, x \in S}

RawEvents ==
  {[organizer |-> o, attendees |-> a] :
     o \in RawOrganizers, a \in SeqsUpTo(RawAttendees, MaxAttendees)}

Name_dir ==
  <<"D","i","r">>

Contact(addr, displayName, givenName, familyName) ==
  [emailAddresses |-> <<addr>>,
   names |-> <<[displayName |-> displayName, givenName |-> givenName,
                familyName |-> familyName]>>]

\* what the directory transport may answer to searchContacts(query=email):
\* an error, no contact, a contact listing the address (in another letter
\* case) with a display name, a contact listing it with a blank given name
\* only, a contact of another address
PeopleResponses(email) ==
  {[raises |-> TRUE, results |-> <<>>],
   [raises |-> FALSE, results |-> <<>>],
   [raises |-> FALSE, results |-> <<Contact(StrUpper(email), Name_dir, <<>>, <<>>)>>],
   [raises |-> FALSE, results |-> <<Contact(email, <<>>, <<" ">>, <<>>)>>],
   [raises |-> FALSE, results |-> <<Contact(<<"o","@","d">>, Name_dir, <<>>, <<>>)>>]}

Name_al ==
  <<"A","l">>

Message(from_field) ==
  [raises |-> FALSE, headers |-> <<[name |-> <<"F","r","o","m">>, value |-> from_field]>>]

\* what the mailbox transport may answer to the search from:email and to
\* the fetches of the messages it lists: an error of the search, no
\* message, an error of the fetch, 'Al <email>', '"" <email>', and a bare
\* address followed by an older 'email (Al)'
GmailResponses(email) ==
  {[raises |-> TRUE, messages |-> <<>>],
   [raises |-> FALSE, messages |-> <<>>],
   [raises |-> FALSE, messages |-> <<[raises |-> TRUE, headers |-> <<>>]>>],
   [raises |-> FALSE, messages |-> <<Message(Name_al \o <<" ","<">> \o email \o <<">">>)>>],
   [raises |-> FALSE, messages |-> <<Message(<<"\"","\""," ","<">> \o email \o <<">">>)>>],
   [raises |-> FALSE, messages |-> <<Message(email),
                                     Message(email \o <<" ","(">> \o Name_al \o <<")">>)>>]}

----------------------------------------------------------------------------
(* The resolver chains of the two extraction handlers                      *)

\* A chain that tries 'cn' before 'name'; C3 must reject it.
AttendeeExplicitName_cn_first(attendee) ==
  IF attendee.displayName # <<>> THEN attendee.displayName
  ELSE IF attendee.cn # <<>> THEN attendee.cn
  ELSE attendee.name

\* lines 326-332 and 572-578: displayName, then 'name', then 'cn'
AttendeeExplicitName(attendee) ==
  IF attendee.displayName # <<>> THEN attendee.displayName
  ELSE IF attendee.name # <<>> THEN attendee.name
  ELSE attendee.cn

\* A loop that keeps an attendee without email when it has a name; C2 must
\* reject it.
SkipsAttendee_unless_named(attendee) ==
  attendee.email = <<>> /\ attendee.displayName = <<>>

\* lines 336-337 and 581-582: `if not email: continue`
SkipsAttendee(attendee) ==
  attendee.email = <<>>

\* A loop that keeps one entry per email; C10 must reject it.
AppendAttendee_deduplicating(infos, attendee_info) ==
  IF \E k \in 1..Len(infos) : infos[k].email = attendee_info.email
    THEN infos
    ELSE Append(infos, attendee_info)

\* lines 350 and 607: attendees_info.append(attendee_info)
AppendAttendee(infos, attendee_info) ==
  Append(infos, attendee_info)

\* lines 312-316 and 552-556: displayName, then 'name'
OrganizerExplicitName(organizer_info) ==
  IF organizer_info.displayName # <<>> THEN organizer_info.displayName
  ELSE organizer_info.name

\* One entry of the log of lookups: which function was called, for which
\* email, whether its transport raised, and what the function returned.
PeopleCall(ps, email, resp) ==
  [api |-> "people", email |-> email, failed |-> resp.raises,
   result |-> get_contact_name_from_people_api(ps, email, resp)]

GmailCall(gs, email, resp) ==
  [api |-> "gmail", email |-> email,
   failed |-> resp.raises \/ \E k \in 1..Len(resp.messages) :
                /\ resp.messages[k].raises
                /\ \A h \in 1..(k-1) : MessageName(resp.messages[h], email).kind = "none",
   result |-> get_contact_name_from_gmail_api(gs, email, resp)]

\* the lookup is not made
NoCall ==
  [api |-> "none", email |-> <<>>, failed |-> FALSE, result |-> NoneVal]

\* the calls get_contact_name_from_people_api(email) can turn out to be
PeopleCalls(ps, email) ==
  {PeopleCall(ps, email, resp) : resp \in PeopleResponses(email)}

\* the calls get_contact_name_from_gmail_api(email) can turn out to be
GmailCalls(gs, email) ==
  {GmailCall(gs, email, resp) : resp \in GmailResponses(email)}

\* extract_attendee_info, lines 310-320: the organizer's name
BasicOrganizerName(organizer_info) ==
  LET explicit == OrganizerExplicitName(organizer_info)
  IN  IF explicit = <<>> /\ organizer_info.email # <<>>
        THEN _extract_name_from_email(organizer_info.email)
        ELSE explicit

\* extract_attendee_info, lines 325-341: the name of an attendee that has
\* an email
BasicAttendeeName(attendee) ==
  LET explicit == AttendeeExplicitName(attendee)
  IN  IF explicit = <<>>
        THEN _extract_name_from_email(attendee.email)
        ELSE explicit

\* line 559: the condition under which the People API is asked about the
\* organizer
OrganizerAsksPeople(organizer_info, ps) ==
  OrganizerExplicitName(organizer_info) = <<>> /\ organizer_info.email # <<>> /\ ps

\* line 585: the condition under which the People API is asked about an
\* attendee
AttendeeAsksPeople(attendee, ps) ==
  AttendeeExplicitName(attendee) = <<>> /\ ps

\* the name after lines 585-588
NameAfterPeople(attendee, ps, people_call) ==
  IF AttendeeAsksPeople(attendee, ps) /\ Truthy(people_call.result)
    THEN people_call.result.val
    ELSE AttendeeExplicitName(attendee)

\* A chain that asks the mailbox whenever it is available, whatever the
\* earlier sources gave; C6 must reject it.
AttendeeAsksGmail_always(attendee, ps, gs, people_call) ==
  gs

\* line 591: the condition under which the Gmail API is asked about an
\* attendee
AttendeeAsksGmail(attendee, ps, gs, people_call) ==
  NameAfterPeople(attendee, ps, people_call) = <<>> /\ gs

\* extract_attendee_info_enhanced, lines 550-566: the organizer's name, the
\* lookups made for it, and whether an exception escaped
EnhancedOrganizer(organizer_info, ps, people_call) ==
  LET email    == organizer_info.email
      explicit == OrganizerExplicitName(organizer_info)
      askDir   == OrganizerAsksPeople(organizer_info, ps)
      api_name == people_call.result
      afterDir == IF askDir /\ Truthy(api_name) THEN api_name.val ELSE explicit
  IN  [name    |-> IF afterDir = <<>> /\ email # <<>>
                     THEN _extract_name_from_email(email)
                     ELSE afterDir,
       calls   |-> IF askDir THEN <<people_call>> ELSE <<>>,
       crashed |-> askDir /\ api_name.kind = "exc"]

\* A chain that asks the mailbox but does not use its answer; C5 must
\* reject it.
EnhancedAttendee_ignoring_mailbox(attendee, ps, gs, people_call, gmail_call) ==
  LET askDir   == AttendeeAsksPeople(attendee, ps)
      afterDir == NameAfterPeople(attendee, ps, people_call)
      askMail  == AttendeeAsksGmail(attendee, ps, gs, people_call)
  IN  [name    |-> IF afterDir = <<>>
                     THEN _extract_name_from_email(attendee.email)
                     ELSE afterDir,
       calls   |-> (IF askDir THEN <<people_call>> ELSE <<>>)
                   \o (IF askMail THEN <<gmail_call>> ELSE <<>>),
       crashed |-> FALSE]

\* A chain that, when no source gives a name, takes the address itself as
\* the name instead of the name the heuristic derives; C28 must reject it.
EnhancedAttendee_address_as_name(attendee, ps, gs, people_call, gmail_call) ==
  LET askDir     == AttendeeAsksPeople(attendee, ps)
      afterDir   == NameAfterPeople(attendee, ps, people_call)
      askMail    == AttendeeAsksGmail(attendee, ps, gs, people_call)
      gmail_name == gmail_call.result
      afterMail  == IF askMail /\ Truthy(gmail_name) THEN gmail_name.val ELSE afterDir
  IN  [name    |-> IF afterMail = <<>> THEN attendee.email ELSE afterMail,
       calls   |-> (IF askDir THEN <<people_call>> ELSE <<>>)
                   \o (IF askMail THEN <<gmail_call>> ELSE <<>>),
       crashed |-> FALSE]

\* extract_attendee_info_enhanced, lines 571-598: the name of an attendee
\* that has an email, the lookups made for it, and whether an exception
\* escaped
EnhancedAttendee(attendee, ps, gs, people_call, gmail_call) ==
  LET email      == attendee.email
      askDir     == AttendeeAsksPeople(attendee, ps)
      dirCrash   == askDir /\ people_call.result.kind = "exc"
      afterDir   == NameAfterPeople(attendee, ps, people_call)
      askMail    == ~dirCrash /\ AttendeeAsksGmail(attendee, ps, gs, people_call)
      gmail_name == gmail_call.result
      afterMail  == IF askMail /\ Truthy(gmail_name) THEN gmail_name.val ELSE afterDir
  IN  [name    |-> IF afterMail = <<>>
                     THEN _extract_name_from_email(email)
                     ELSE afterMail,
       calls   |-> (IF askDir THEN <<people_call>> ELSE <<>>)
                   \o (IF askMail THEN <<gmail_call>> ELSE <<>>),
       crashed |-> dirCrash \/ (askMail /\ gmail_name.kind = "exc")]

AnyFailed(log) ==
  \E k \in 1..Len(log) : log[k].failed

----------------------------------------------------------------------------
(* State                                                                   *)

VARIABLES
  people_service,   \* TRUE when _authenticate built the People API service
  gmail_service,    \* TRUE when _authenticate built the Gmail API service
  pc,               \* "idle", "attendees" (in the loop), "done" (returned), "crashed"
  mode,             \* "BASIC": extract_attendee_info, "ENHANCED": ..._enhanced
  event,            \* the raw event the handler was called with
  i,                \* how many raw attendees the loop has gone through
  attendees_info,   \* the handler's local attendees_info
  organizer_name,   \* the handler's local organizer_name
  organizer_email,  \* the handler's local organizer_email
  calls,            \* the lookups made by the last step, in call order
  organizer_calls,  \* the lookups made for the organizer
  failed,           \* a lookup transport has raised during this run
  runs,             \* how many times the event has been processed
  first             \* the result of the first run on this event

\* get_events_for_day / get_attendee_info_for_day
VARIABLES
  use_enhanced_extraction,  \* self.use_enhanced_extraction, line 144
  day_pc,                   \* "idle", "aggregating" (loop of line 990), "returned"
  entry_point,              \* the day-level method that was called
  target_date,              \* its argument
  list_outcome,             \* what events().list(...).execute() did, line 786
  day_events,               \* the DayEventsInfo get_events_for_day returned
  meeting_index,            \* how many meetings the loop of line 990 has finished
  attendee_index,           \* how many attendees of the current meeting are done
  attendee_frequency,       \* dict of line 986, as its items in insertion order
  attendee_name_mapping,    \* dict of line 987, as its items in insertion order
  meeting_attendee_mapping, \* dict of line 988, as its items in insertion order
  day_result,               \* the dict get_attendee_info_for_day returned
  last_enabled,             \* the argument of the most recent set_enhanced_extraction,
                            \* the environment's default before the first
  set_calls,                \* how many times set_enhanced_extraction was called
  handler_calls,            \* the per-event handlers the entry point called, in order
  meeting_infos,            \* what a single-meeting or search entry point returned
  tool_pc,                  \* "idle", "called", "returned": a tool of calendar_search_agent.py
  tool,                     \* the tool that was called
  date_input,               \* its argument
  tool_output               \* the text it returned, as its lines

\* the extraction mode and the entry points that process single meetings
mode_vars ==
  <<last_enabled, set_calls, handler_calls, meeting_infos>>

\* the tools of calendar_search_agent.py
tool_vars ==
  <<tool_pc, tool, date_input, tool_output>>

day_vars ==
  <<use_enhanced_extraction, day_pc, entry_point, target_date, list_outcome,
    day_events, meeting_index, attendee_index, attendee_frequency,
    attendee_name_mapping, meeting_attendee_mapping, day_result, mode_vars, tool_vars>>

\* _extract_name_from_email called on its own
VARIABLES
  heuristic_pc,   \* "start", "called" (on the full address), "compared"
  local_base,     \* a local part
  suffix,         \* what follows it in the local part of the address
  name_full,      \* the name returned for local_base + suffix
  name_base       \* the name returned for local_base alone

heuristic_vars ==
  <<heuristic_pc, local_base, suffix, name_full, name_base>>

\* get_contact_name_from_gmail_api called on its own
VARIABLES
  lookup_pc,        \* "idle", "called", "returned"
  lookup_email,     \* the address the mailbox is searched for
  lookup_response,  \* what the mailbox transport answers, line 476 and 486
  lookup_name       \* the value the lookup returned

lookup_vars ==
  <<lookup_pc, lookup_email, lookup_response, lookup_name>>

\* extract_meeting_info_with_ai called on its own
VARIABLES
  ai_pc,            \* "idle", "called", "returned"
  openai_api_key,   \* self.openai_api_key is set, line 143
  ai_title,         \* the argument title
  ai_description,   \* the argument description
  ai_outcome,       \* what openai.chat.completions.create did, line 283
  ai_result         \* the tuple extract_meeting_info_with_ai returned

ai_vars ==
  <<ai_pc, openai_api_key, ai_title, ai_description, ai_outcome, ai_result>>

\* meeting_agent_server.py: the two module globals and the requests that
\* the server's threads are handling
VARIABLES
  calendar_agent,   \* the global of line 30: 0 is None, else the instance
  meeting_agent,    \* the global of line 31: 0 is None, else the instance
  request_pc,       \* where each request is in health_check
  returned_agent,   \* what the ensure_ functions returned to each request
  constructions     \* how many instances each constructor has built

server_vars ==
  <<calendar_agent, meeting_agent, request_pc, returned_agent, constructions>>

vars ==
  <<people_service, gmail_service, pc, mode, event, i, attendees_info,
    organizer_name, organizer_email, calls, organizer_calls, failed, runs, first,
    day_vars, heuristic_vars, lookup_vars, ai_vars, server_vars>>

NoOrganizer ==
  [email |-> <<>>, displayName |-> <<>>, name |-> <<>>]

NoEvent ==
  [organizer |-> NoOrganizer, attendees |-> <<>>]

NoResult ==
  [attendees |-> <<>>, organizer_name |-> <<>>, organizer_email |-> <<>>]

\* the tuple returned at line 352 / 609
Result ==
  [attendees |-> attendees_info, organizer_name |-> organizer_name,
   organizer_email |-> organizer_email]

\* no dict: the value of a variable that holds a dict before the code has
\* built it
NotReturned ==
  [none |-> TRUE]

\* events().list has not been called
NotListed ==
  [kind |-> "not_called", items |-> <<>>, error |-> <<>>]

NoDayEvents ==
  [date |-> <<>>, total_events |-> 0, meetings |-> <<>>, summary_info |-> NotReturned]

\* no day-level method has been called
DayIdle ==
  /\ day_pc = "idle"
  /\ entry_point = "none"
  /\ target_date = <<>>
  /\ list_outcome = NotListed
  /\ day_events = NoDayEvents
  /\ meeting_index = 0
  /\ attendee_index = 0
  /\ attendee_frequency = <<>>
  /\ attendee_name_mapping = <<>>
  /\ meeting_attendee_mapping = <<>>
  /\ day_result = NotReturned
  /\ last_enabled = use_enhanced_extraction
  /\ set_calls = 0
  /\ handler_calls = <<>>
  /\ meeting_infos = <<>>
  /\ tool_pc = "idle"
  /\ tool = "none"
  /\ date_input = <<>>
  /\ tool_output = <<>>

\* the heuristic has not been called on its own
HeuristicIdle ==
  /\ heuristic_pc = "idle"
  /\ local_base = <<>>
  /\ suffix = <<>>
  /\ name_full = <<>>
  /\ name_base = <<>>

\* the mailbox lookup has not been called on its own
LookupIdle ==
  /\ lookup_pc = "idle"
  /\ lookup_email = <<>>
  /\ lookup_response = [raises |-> FALSE, messages |-> <<>>]
  /\ lookup_name = NoneVal

NoReply ==
  [kind |-> "not_called"]

NoTuple ==
  [meeting_title |-> <<>>, person_names |-> <<>>]

\* extract_meeting_info_with_ai has not been called on its own
AiIdle ==
  /\ ai_pc = "idle"
  /\ openai_api_key = FALSE
  /\ ai_title = <<>>
  /\ ai_description = <<>>
  /\ ai_outcome = NoReply
  /\ ai_result = NoTuple

\* the server handles no request
ServerIdle ==
  /\ calendar_agent = 0
  /\ meeting_agent = 0
  /\ request_pc = <<>>
  /\ returned_agent = <<>>
  /\ constructions = [calendar_agent |-> 0, meeting_agent |-> 0]

\* no extraction handler has been called
ExtractionIdle ==
  /\ pc = "idle"
  /\ mode = "BASIC"
  /\ event = NoEvent
  /\ i = 0
  /\ attendees_info = <<>>
  /\ organizer_name = <<>>
  /\ organizer_email = <<>>
  /\ calls = <<>>
  /\ organizer_calls = <<>>
  /\ failed = FALSE
  /\ runs = 0
  /\ first = NoResult

\* _authenticate, lines 182-194: each of the two services may fail to build
Init ==
  /\ people_service \in BOOLEAN
  /\ gmail_service \in BOOLEAN
  /\ use_enhanced_extraction = FALSE
  /\ DayIdle
  /\ HeuristicIdle
  /\ LookupIdle
  /\ AiIdle
  /\ ServerIdle
  /\ pc = "idle"
  /\ mode = "BASIC"
  /\ event = NoEvent
  /\ i = 0
  /\ attendees_info = <<>>
  /\ organizer_name = <<>>
  /\ organizer_email = <<>>
  /\ calls = <<>>
  /\ organizer_calls = <<>>
  /\ failed = FALSE
  /\ runs = 0
  /\ first = NoResult

----------------------------------------------------------------------------
(* extract_attendee_info (BASIC)                                           *)

\* the control state after i raw attendees: the loop of lines 324 / 570
\* goes on, or it is over and the handler returns (line 352 / 609)
AfterAttendee(ev, n) ==
  IF n < Len(ev.attendees) THEN "attendees" ELSE "done"

\* lines 299-323: the locals, the organizer, and the attendee list
BasicOrganizerStep(ev) ==
  /\ pc' = AfterAttendee(ev, 0)
  /\ mode' = "BASIC"
  /\ event' = ev
  /\ i' = 0
  /\ attendees_info' = <<>>
  /\ organizer_email' = ev.organizer.email
  /\ organizer_name' = BasicOrganizerName(ev.organizer)
  /\ calls' = <<>>
  /\ organizer_calls' = <<>>
  /\ failed' = FALSE

\* process_meeting, line 645, on an event
extract_attendee_info_organizer ==
  /\ pc = "idle"
  /\ \E ev \in RawEvents : BasicOrganizerStep(ev)
  /\ runs' = 1
  /\ first' = NoResult
  /\ UNCHANGED <<day_vars, heuristic_vars, lookup_vars, ai_vars, server_vars>>
  /\ UNCHANGED <<people_service, gmail_service>>

\* A BASIC loop that asks the directory about attendees without explicit
\* name, as the ENHANCED loop does; C4 must reject it.
extract_attendee_info_attendee_asking_people ==
  /\ pc = "attendees"
  /\ mode = "BASIC"
  /\ i < Len(event.attendees)
  /\ LET attendee == event.attendees[i + 1]
     IN  IF SkipsAttendee(attendee)
           THEN /\ i' = i + 1
                /\ pc' = AfterAttendee(event, i + 1)
                /\ calls' = <<>>
                /\ UNCHANGED <<attendees_info, failed>>
           ELSE \E people_call \in IF AttendeeAsksPeople(attendee, people_service)
                                       THEN PeopleCalls(people_service, attendee.email)
                                       ELSE {NoCall} :
                  LET r == EnhancedAttendee(attendee, people_service, FALSE,
                                            people_call, NoCall)
                  IN  /\ i' = i + 1
                      /\ calls' = r.calls
                      /\ failed' = (failed \/ AnyFailed(r.calls))
                      /\ pc' = AfterAttendee(event, i + 1)
                      /\ attendees_info' =
                           AppendAttendee(attendees_info, AttendeeInfo(r.name, attendee.email))
  /\ UNCHANGED <<day_vars, heuristic_vars, lookup_vars, ai_vars, server_vars>>
  /\ UNCHANGED <<people_service, gmail_service, mode, event, organizer_name,
                 organizer_email, organizer_calls, runs, first>>

\* lines 324-352: one iteration of the attendee loop, and the return after
\* the last one
extract_attendee_info_attendee ==
  /\ pc = "attendees"
  /\ mode = "BASIC"
  /\ i < Len(event.attendees)
  /\ LET attendee == event.attendees[i + 1]
     IN  /\ i' = i + 1
         /\ pc' = AfterAttendee(event, i + 1)
         /\ calls' = <<>>
         /\ attendees_info' =
              IF SkipsAttendee(attendee)
                THEN attendees_info
                ELSE AppendAttendee(attendees_info,
                       AttendeeInfo(BasicAttendeeName(attendee), attendee.email))
  /\ UNCHANGED <<day_vars, heuristic_vars, lookup_vars, ai_vars, server_vars>>
  /\ UNCHANGED <<people_service, gmail_service, mode, event, organizer_name,
                 organizer_email, organizer_calls, failed, runs, first>>

\* process_meeting run once more on the same raw event
process_meeting_again ==
  /\ pc = "done"
  /\ mode = "BASIC"
  /\ runs < MaxRuns
  /\ BasicOrganizerStep(event)
  /\ runs' = runs + 1
  /\ first' = IF runs = 1 THEN Result ELSE first
  /\ UNCHANGED <<day_vars, heuristic_vars, lookup_vars, ai_vars, server_vars>>
  /\ UNCHANGED <<people_service, gmail_service>>

----------------------------------------------------------------------------
(* extract_attendee_info_enhanced (ENHANCED)                               *)

\* lines 539-569: the locals, the organizer, and the attendee list
extract_attendee_info_enhanced_organizer ==
  /\ pc = "idle"
  /\ \E ev \in RawEvents :
       \E people_call \in IF OrganizerAsksPeople(ev.organizer, people_service)
                            THEN PeopleCalls(people_service, ev.organizer.email)
                            ELSE {NoCall} :
         LET r == EnhancedOrganizer(ev.organizer, people_service, people_call)
         IN  /\ pc' = IF r.crashed THEN "crashed" ELSE AfterAttendee(ev, 0)
             /\ mode' = "ENHANCED"
             /\ event' = ev
             /\ i' = 0
             /\ attendees_info' = <<>>
             /\ organizer_email' = ev.organizer.email
             /\ organizer_name' = IF r.crashed THEN <<>> ELSE r.name
             /\ calls' = r.calls
             /\ organizer_calls' = r.calls
             /\ failed' = AnyFailed(r.calls)
  /\ runs' = 1
  /\ first' = NoResult
  /\ UNCHANGED <<day_vars, heuristic_vars, lookup_vars, ai_vars, server_vars>>
  /\ UNCHANGED <<people_service, gmail_service>>

\* lines 570-609: one iteration of the attendee loop, and the return after
\* the last one
extract_attendee_info_enhanced_attendee ==
  /\ pc = "attendees"
  /\ mode = "ENHANCED"
  /\ i < Len(event.attendees)
  /\ LET attendee   == event.attendees[i + 1]
         gmailCalls == GmailCalls(gmail_service, attendee.email)
     IN  IF SkipsAttendee(attendee)
           THEN /\ i' = i + 1
                /\ pc' = AfterAttendee(event, i + 1)
                /\ calls' = <<>>
                /\ UNCHANGED <<attendees_info, failed>>
           ELSE \E people_call \in IF AttendeeAsksPeople(attendee, people_service)
                                       THEN PeopleCalls(people_service, attendee.email)
                                       ELSE {NoCall} :
                  \E gmail_call \in IF AttendeeAsksGmail(attendee, people_service,
                                                         gmail_service, people_call)
                                       THEN gmailCalls
                                       ELSE {NoCall} :
                    LET r == EnhancedAttendee(attendee, people_service, gmail_service,
                                              people_call, gmail_call)
                    IN  /\ i' = i + 1
                        /\ calls' = r.calls
                        /\ failed' = (failed \/ AnyFailed(r.calls))
                        /\ pc' = IF r.crashed THEN "crashed" ELSE AfterAttendee(event, i + 1)
                        /\ attendees_info' =
                             IF r.crashed
                               THEN attendees_info
                               ELSE AppendAttendee(attendees_info,
                                      AttendeeInfo(r.name, attendee.email))
  /\ UNCHANGED <<day_vars, heuristic_vars, lookup_vars, ai_vars, server_vars>>
  /\ UNCHANGED <<people_service, gmail_service, mode, event, organizer_name,
                 organizer_email, organizer_calls, runs, first>>

Next ==
  \/ extract_attendee_info_organizer
  \/ extract_attendee_info_attendee
  \/ process_meeting_again
  \/ extract_attendee_info_enhanced_organizer
  \/ extract_attendee_info_enhanced_attendee

Spec ==
  Init /\ [][Next]_vars

----------------------------------------------------------------------------
(* get_events_for_day: the date, the calendar, the meetings of the day     *)

DigitSeq ==
  <<"0","1","2","3","4","5","6","7","8","9">>

\* int() of one digit
DigitValue ==
  [c \in DigitChars |-> (CHOOSE k \in 1..Len(DigitSeq) : DigitSeq[k] = c) - 1]

AllDigits(s) ==
  \A k \in 1..Len(s) : s[k] \in DigitChars

\* int() of a run of digits
RECURSIVE Number(_)
Number(s) ==
  IF s = <<>> THEN 0
  ELSE 10 * Number(SubSeq(s, 1, Len(s) - 1)) + DigitValue[s[Len(s)]]

IsLeapYear(year) ==
  (year % 4 = 0 /\ year % 100 # 0) \/ year % 400 = 0

DaysInMonth(year, month) ==
  IF month = 2 THEN (IF IsLeapYear(year) THEN 29 ELSE 28)
  ELSE IF month \in {4, 6, 9, 11} THEN 30
  ELSE 31

\* %m: 1[0-2]|0[1-9]|[1-9]
MatchesMonth(part) ==
  Len(part) \in {1, 2} /\ AllDigits(part) /\ Number(part) \in 1..12

\* %d: 3[01]|[12]\d|0[1-9]|[1-9]| [1-9]
MatchesDay(part) ==
  \/ Len(part) \in {1, 2} /\ AllDigits(part) /\ Number(part) \in 1..31
  \/ Len(part) = 2 /\ part[1] = " " /\ part[2] \in DigitChars \ {"0"}

\* line 780: datetime.strptime(target_date, '%Y-%m-%d') returns a date;
\* FALSE when it raises ValueError (no match, unconverted data, or a day
\* or year that is out of range)
strptime_Ymd(date_string) ==
  LET parts == StrSplit(date_string, "-")
  IN  /\ Len(parts) = 3
      /\ Len(parts[1]) = 4 /\ AllDigits(parts[1]) /\ Number(parts[1]) >= 1
      /\ MatchesMonth(parts[2])
      /\ MatchesDay(parts[3])
      /\ Number(SelectSeq(parts[3], LAMBDA c : c # " "))
           <= DaysInMonth(Number(parts[1]), Number(parts[2]))

\* how many events the calendar lists for the day
MaxMeetings ==
  2

\* the dates the day-level methods are called with: two that parse and
\* four that do not
TargetDates ==
  {<<"2","0","2","4","-","0","1","-","1","5">>,
   <<"2","0","2","4","-","1","-","5">>,
   <<"2","0","2","4","-","0","2","-","3","0">>,
   <<"2","0","2","4","-","1","3","-","0","1">>,
   <<"1","5","/","0","1","/","2","0","2","4">>,
   <<>>}

Title_s ==
  <<"S">>

Title_t ==
  <<"T">>

DayEvent(summary, organizer, attendees) ==
  [summary |-> summary, organizer |-> organizer, attendees |-> attendees]

\* the events of a day: the same email under two display names, two emails
\* under one display name, both orders of the two emails, two events of one
\* title, an event without attendees, and attendees without name or email
DayRawEvents ==
  {DayEvent(Title_s, RawOrganizer(Email_js, <<>>, <<>>),
            <<RawAttendee(Email_js, Name_dn, <<>>, <<>>)>>),
   DayEvent(Title_t, NoOrganizer,
            <<RawAttendee(Email_js, Name_nm, <<>>, <<>>),
              RawAttendee(Email_12, Name_dn, <<>>, <<>>)>>),
   DayEvent(Title_s, NoOrganizer,
            <<RawAttendee(Email_12, Name_dn, <<>>, <<>>),
              RawAttendee(Email_js, Name_dn, <<>>, <<>>)>>),
   DayEvent(Title_t, NoOrganizer, <<>>),
   DayEvent(Title_t, NoOrganizer,
            <<RawAttendee(Email_js, <<>>, <<>>, <<>>),
              RawAttendee(<<>>, Name_dn, <<>>, <<>>)>>)}

\* str(error) of the HttpError of line 818
HttpErrorText ==
  "<HttpError 500>"

Listed(items) ==
  [kind |-> "items", items |-> items, error |-> <<>>]

\* what events().list(...).execute() can do: return the events of the day,
\* raise HttpError, or raise an exception that is not an HttpError
ListOutcomes ==
  {Listed(items) : items \in SeqsUpTo(DayRawEvents, MaxMeetings)}
    \cup {[kind |-> "HttpError", items |-> <<>>, error |-> HttpErrorText],
          [kind |-> "other_exception", items |-> <<>>, error |-> <<>>]}

MeetingInfo(meeting_title, attendees, organizer_name_, organizer_email_) ==
  [meeting_title |-> meeting_title, attendees |-> attendees,
   organizer_name |-> organizer_name_, organizer_email |-> organizer_email_]

\* extract_attendee_info, lines 324-352, as a function of the raw attendees
RECURSIVE BasicAttendees(_)
BasicAttendees(attendees) ==
  IF attendees = <<>> THEN <<>>
  ELSE LET attendee == attendees[Len(attendees)]
           before   == BasicAttendees(SubSeq(attendees, 1, Len(attendees) - 1))
       IN  IF SkipsAttendee(attendee)
             THEN before
             ELSE AppendAttendee(before,
                    AttendeeInfo(BasicAttendeeName(attendee), attendee.email))

\* the names lines 584-598 can give an attendee, over what the lookups return
EnhancedAttendeeNames(attendee, ps, gs) ==
  {EnhancedAttendee(attendee, ps, gs, people_call, gmail_call).name :
     people_call \in PeopleCalls(ps, attendee.email),
     gmail_call \in GmailCalls(gs, attendee.email)}

\* extract_attendee_info_enhanced, lines 570-609: the attendee lists it can
\* return, over what the lookups return
RECURSIVE EnhancedAttendeeLists(_, _, _)
EnhancedAttendeeLists(attendees, ps, gs) ==
  IF attendees = <<>> THEN {<<>>}
  ELSE LET attendee == attendees[Len(attendees)]
           befores  == EnhancedAttendeeLists(SubSeq(attendees, 1, Len(attendees) - 1), ps, gs)
       IN  IF SkipsAttendee(attendee)
             THEN befores
             ELSE {AppendAttendee(before, AttendeeInfo(name, attendee.email)) :
                     before \in befores, name \in EnhancedAttendeeNames(attendee, ps, gs)}

\* lines 550-566: the names the organizer can get, over what the lookup
\* returns
EnhancedOrganizerNames(organizer_info, ps) ==
  {EnhancedOrganizer(organizer_info, ps, people_call).name :
     people_call \in PeopleCalls(ps, organizer_info.email)}

\* process_meeting, lines 617-658: the MeetingInfo of an event.  Its title
\* is the event's summary (no OpenAI key is configured, lines 259-262);
\* times, location and description play no part in the day's attendee
\* analysis and are left out.
process_meeting(ev) ==
  MeetingInfo(ev.summary, BasicAttendees(ev.attendees),
              BasicOrganizerName(ev.organizer), ev.organizer.email)

\* process_meeting_enhanced, lines 660-706: the MeetingInfos it can return
process_meeting_enhanced(ev, ps, gs) ==
  {MeetingInfo(ev.summary, attendees, name, ev.organizer.email) :
     attendees \in EnhancedAttendeeLists(ev.attendees, ps, gs),
     name \in EnhancedOrganizerNames(ev.organizer, ps)}

\* lines 797-803: the lists of meetings the loop over the events can build
RECURSIVE ProcessedMeetings(_, _, _, _)
ProcessedMeetings(events, enhanced, ps, gs) ==
  IF events = <<>> THEN {<<>>}
  ELSE LET befores == ProcessedMeetings(SubSeq(events, 1, Len(events) - 1), enhanced, ps, gs)
           lasts   == IF enhanced
                        THEN process_meeting_enhanced(events[Len(events)], ps, gs)
                        ELSE {process_meeting(events[Len(events)])}
       IN  {Append(before, last) : before \in befores, last \in lasts}

DayEventsInfo(date, total_events, meetings, summary_info) ==
  [date |-> date, total_events |-> total_events, meetings |-> meetings,
   summary_info |-> summary_info]

\* lines 834-839: the emails of the attendees of the meetings
AttendeeEmails(meetings) ==
  UNION {{meetings[k].attendees[j].email : j \in 1..Len(meetings[k].attendees)} :
           k \in 1..Len(meetings)} \ {<<>>}

\* _analyze_day_events, lines 822-856 (the meeting time total and the AI
\* analysis left out); attendee_emails is list(set), kept as the set
_analyze_day_events(meetings) ==
  IF meetings = <<>>
    THEN [summary |-> <<"No events scheduled for this day">>]
    ELSE [summary |-> <<ToString(Len(meetings)), " meetings scheduled">>,
          total_unique_attendees |-> Cardinality(AttendeeEmails(meetings)),
          attendee_emails |-> AttendeeEmails(meetings),
          meeting_titles |-> [k \in 1..Len(meetings) |-> meetings[k].meeting_title]]

\* get_events_for_day, lines 778-820, for each way the call can go: what it
\* returns, and whether an exception escapes it
GetEventsForDay(date, outcome, meetings) ==
  IF ~strptime_Ymd(date)
    THEN [raised |-> FALSE,
          value  |-> DayEventsInfo(date, 0, <<>>, [error |-> "Invalid date format"])]
  ELSE IF outcome.kind = "HttpError"
    THEN [raised |-> FALSE,
          value  |-> DayEventsInfo(date, 0, <<>>, [error |-> outcome.error])]
  ELSE IF outcome.kind = "other_exception"
    THEN [raised |-> TRUE, value |-> NoDayEvents]
  ELSE [raised |-> FALSE,
        value  |-> DayEventsInfo(date, Len(meetings), meetings,
                                 _analyze_day_events(meetings))]

\* line 983
NoEventsMessage ==
  [message |-> "No events found for this date"]

\* lines 798-803: the handler called for each listed event
HandlerCalls(events, enhanced) ==
  [k \in 1..Len(events) |->
     IF enhanced THEN "process_meeting_enhanced" ELSE "process_meeting"]

\* the call of get_events_for_day(date) by `entry`: the date is parsed, the
\* calendar is asked when the date parses, and every listed event is
\* processed in the mode use_enhanced_extraction selects
CallGetEventsForDay(entry, date) ==
  /\ entry_point' = entry
  /\ target_date' = date
  /\ \E outcome \in IF strptime_Ymd(date) THEN ListOutcomes ELSE {NotListed} :
       \E meetings \in ProcessedMeetings(outcome.items, use_enhanced_extraction,
                                         people_service, gmail_service) :
         LET r == GetEventsForDay(date, outcome, meetings)
         IN  /\ list_outcome' = outcome
             /\ day_events' = r.value
             /\ day_pc' = IF r.raised THEN "raised"
                          ELSE IF entry = "get_events_for_day" THEN "returned"
                          ELSE IF r.value.total_events = 0 THEN "returned"
                          ELSE "aggregating"
             /\ day_result' = IF ~r.raised /\ entry = "get_attendee_info_for_day"
                                 /\ r.value.total_events = 0
                                THEN NoEventsMessage
                                ELSE NotReturned
             /\ handler_calls' = HandlerCalls(outcome.items, use_enhanced_extraction)
  /\ meeting_index' = 0
  /\ attendee_index' = 0
  /\ attendee_frequency' = <<>>
  /\ attendee_name_mapping' = <<>>
  /\ meeting_attendee_mapping' = <<>>
  /\ UNCHANGED <<people_service, gmail_service, use_enhanced_extraction>>
  /\ UNCHANGED <<last_enabled, set_calls, meeting_infos>>
  /\ UNCHANGED <<pc, mode, event, i, attendees_info, organizer_name, organizer_email,
                 calls, organizer_calls, failed, runs, first, heuristic_vars, lookup_vars, ai_vars,
                 server_vars>>

\* get_events_for_day(target_date) called by a client
get_events_for_day ==
  /\ day_pc = "idle"
  /\ \E date \in TargetDates : CallGetEventsForDay("get_events_for_day", date)
  /\ UNCHANGED tool_vars

----------------------------------------------------------------------------
(* get_attendee_info_for_day                                               *)

\* A dict is the sequence of its items, [key, value], in insertion order.
DictHas(d, key) ==
  \E k \in 1..Len(d) : d[k].key = key

\* A get that never finds the key; C11 must reject it.
DictGet_never_found(d, key, default) ==
  default

\* d.get(key, default)
DictGet(d, key, default) ==
  IF DictHas(d, key)
    THEN d[CHOOSE k \in 1..Len(d) : d[k].key = key].value
    ELSE default

\* An assignment that keeps the value a key already has; C12 must reject it.
DictSet_keeping_first(d, key, value) ==
  IF DictHas(d, key)
    THEN d
    ELSE Append(d, [key |-> key, value |-> value])

\* d[key] = value: a key the dict has keeps its position
DictSet(d, key, value) ==
  IF DictHas(d, key)
    THEN [k \in 1..Len(d) |-> IF d[k].key = key THEN [key |-> key, value |-> value] ELSE d[k]]
    ELSE Append(d, [key |-> key, value |-> value])

DictKeys(d) ==
  [k \in 1..Len(d) |-> d[k].key]

DictValues(d) ==
  [k \in 1..Len(d) |-> d[k].value]

\* sorted(..., reverse=True) that reverses the ascending order, ties
\* included; C14 must reject it.
RECURSIVE SortedByCount_reversing_ties(_)
SortedByCount_reversing_ties(items) ==
  IF items = <<>> THEN <<>>
  ELSE LET item   == items[1]
           rest   == SortedByCount_reversing_ties(Tail(items))
           before == SelectSeq(rest, LAMBDA x : x.value >= item.value)
           after  == SelectSeq(rest, LAMBDA x : x.value < item.value)
       IN  before \o <<item>> \o after

\* line 1015: sorted(items, key=lambda x: x[1], reverse=True).  The sort is
\* stable, and with reverse=True items of equal key keep their order.
RECURSIVE SortedByCount(_)
SortedByCount(items) ==
  IF items = <<>> THEN <<>>
  ELSE LET item   == items[Len(items)]
           rest   == SortedByCount(SubSeq(items, 1, Len(items) - 1))
           before == SelectSeq(rest, LAMBDA x : x.value >= item.value)
           after  == SelectSeq(rest, LAMBDA x : x.value < item.value)
       IN  before \o <<item>> \o after

\* line 1015: [:10]
MostFrequentLimit ==
  10

\* lines 1014-1021
FrequentAttendees(frequency, name_mapping) ==
  LET top == TakeFirst(SortedByCount(frequency), MostFrequentLimit)
  IN  [k \in 1..Len(top) |->
         [name |-> DictGet(name_mapping, top[k].key, top[k].key),
          email |-> top[k].key,
          meeting_count |-> top[k].value]]

\* lines 1004-1011: the entry of one meeting ('time' left out)
MeetingAttendeeDetails(meeting) ==
  [attendees |-> [k \in 1..Len(meeting.attendees) |->
                    [name |-> meeting.attendees[k].display_name,
                     email |-> meeting.attendees[k].email]],
   attendee_names |-> [k \in 1..Len(meeting.attendees) |->
                         meeting.attendees[k].display_name],
   attendee_emails |-> SelectSeq([k \in 1..Len(meeting.attendees) |->
                                    meeting.attendees[k].email], NonEmptyStr),
   organizer_name |-> meeting.organizer_name,
   organizer_email |-> meeting.organizer_email]

\* An aggregate that counts the distinct display names instead of the
\* emails; C13 must reject it.
AttendeeInfoForDay_counting_names(date, total_events, frequency, name_mapping, meeting_mapping) ==
  [date |-> date,
   total_meetings |-> total_events,
   unique_attendees |-> Cardinality({name_mapping[k].value : k \in 1..Len(name_mapping)}),
   meeting_attendee_details |-> meeting_mapping,
   most_frequent_attendees |-> FrequentAttendees(frequency, name_mapping),
   all_attendee_emails |-> DictKeys(frequency),
   all_attendee_names |-> DictValues(name_mapping)]

\* lines 1023-1031: the dict get_attendee_info_for_day returns
AttendeeInfoForDay(date, total_events, frequency, name_mapping, meeting_mapping) ==
  [date |-> date,
   total_meetings |-> total_events,
   unique_attendees |-> Len(frequency),
   meeting_attendee_details |-> meeting_mapping,
   most_frequent_attendees |-> FrequentAttendees(frequency, name_mapping),
   all_attendee_emails |-> DictKeys(frequency),
   all_attendee_names |-> DictValues(name_mapping)]

\* lines 980-988: get_events_for_day is called; no events, return the
\* message; else the three dicts start empty
get_attendee_info_for_day ==
  /\ day_pc = "idle"
  /\ \E date \in TargetDates : CallGetEventsForDay("get_attendee_info_for_day", date)
  /\ UNCHANGED tool_vars

\* lines 993-1002: one attendee of the current meeting
get_attendee_info_for_day_attendee ==
  /\ day_pc = "aggregating"
  /\ meeting_index < Len(day_events.meetings)
  /\ attendee_index < Len(day_events.meetings[meeting_index + 1].attendees)
  /\ LET attendee == day_events.meetings[meeting_index + 1].attendees[attendee_index + 1]
     IN  IF attendee.email # <<>>
           THEN /\ attendee_frequency' =
                     DictSet(attendee_frequency, attendee.email,
                             DictGet(attendee_frequency, attendee.email, 0) + 1)
                /\ attendee_name_mapping' =
                     DictSet(attendee_name_mapping, attendee.email, attendee.display_name)
           ELSE UNCHANGED <<attendee_frequency, attendee_name_mapping>>
  /\ attendee_index' = attendee_index + 1
  /\ UNCHANGED <<use_enhanced_extraction, day_pc, entry_point, target_date, list_outcome,
                 day_events, meeting_index, meeting_attendee_mapping, day_result,
                 mode_vars, tool_vars>>
  /\ UNCHANGED <<people_service, gmail_service, pc, mode, event, i, attendees_info,
                 organizer_name, organizer_email, calls, organizer_calls, failed, runs,
                 first, heuristic_vars, lookup_vars, ai_vars,
                 server_vars>>

\* lines 1004-1011: the current meeting's entry of meeting_attendee_mapping,
\* and on to the next meeting
get_attendee_info_for_day_meeting ==
  /\ day_pc = "aggregating"
  /\ meeting_index < Len(day_events.meetings)
  /\ attendee_index = Len(day_events.meetings[meeting_index + 1].attendees)
  /\ LET meeting == day_events.meetings[meeting_index + 1]
     IN  meeting_attendee_mapping' =
           DictSet(meeting_attendee_mapping, meeting.meeting_title,
                   MeetingAttendeeDetails(meeting))
  /\ meeting_index' = meeting_index + 1
  /\ attendee_index' = 0
  /\ UNCHANGED <<use_enhanced_extraction, day_pc, entry_point, target_date, list_outcome,
                 day_events, attendee_frequency, attendee_name_mapping, day_result,
                 mode_vars, tool_vars>>
  /\ UNCHANGED <<people_service, gmail_service, pc, mode, event, i, attendees_info,
                 organizer_name, organizer_email, calls, organizer_calls, failed, runs,
                 first, heuristic_vars, lookup_vars, ai_vars,
                 server_vars>>

\* lines 1013-1031: the most frequent attendees and the returned dict
get_attendee_info_for_day_return ==
  /\ day_pc = "aggregating"
  /\ meeting_index = Len(day_events.meetings)
  /\ day_result' = AttendeeInfoForDay(target_date, day_events.total_events,
                                      attendee_frequency, attendee_name_mapping,
                                      meeting_attendee_mapping)
  /\ day_pc' = "returned"
  /\ UNCHANGED <<use_enhanced_extraction, entry_point, target_date, list_outcome,
                 day_events, meeting_index, attendee_index, attendee_frequency,
                 attendee_name_mapping, meeting_attendee_mapping, mode_vars, tool_vars>>
  /\ UNCHANGED <<people_service, gmail_service, pc, mode, event, i, attendees_info,
                 organizer_name, organizer_email, calls, organizer_calls, failed, runs,
                 first, heuristic_vars, lookup_vars, ai_vars,
                 server_vars>>

\* __init__ / _authenticate, lines 144 and 182-194: the extraction mode comes
\* from the environment, each lookup service may fail to build
DayInit ==
  /\ people_service \in BOOLEAN
  /\ gmail_service \in BOOLEAN
  /\ use_enhanced_extraction \in BOOLEAN
  /\ DayIdle
  /\ HeuristicIdle
  /\ LookupIdle
  /\ AiIdle
  /\ ServerIdle
  /\ ExtractionIdle

DayNext ==
  \/ get_events_for_day
  \/ get_attendee_info_for_day
  \/ get_attendee_info_for_day_attendee
  \/ get_attendee_info_for_day_meeting
  \/ get_attendee_info_for_day_return

DaySpec ==
  DayInit /\ [][DayNext]_vars

----------------------------------------------------------------------------
(* _extract_name_from_email on its own                                     *)

\* the longest local part built from HeuristicChars
MaxLocalLen ==
  3

\* a lowercase letter, an uppercase letter, the three separators, a digit
HeuristicChars ==
  {"j", "S", ".", "_", "-", "4"}

\* local parts of the forms the heuristic is written for, the last three
\* without separator and with the location token 'in' inside
SampleLocalParts ==
  {<<"j","s","m","i","t","h">>,
   <<"j","o","h","n","S","m","i","t","h">>,
   <<"j",".","s","m","i","t","h">>,
   <<"j","a","n","e",".","d","o","e">>,
   <<"j","o","h","n","_","s","m","i","t","h">>,
   <<"m","a","r","y","-","j","o","n","e","s">>,
   <<"a",".","b","_","c","-","d">>,
   <<"m","a","t","t","h","e","w","i","n","c","u","p","e","r","t","i","n","o">>,
   <<"a","u","s","t","i","n">>,
   <<"r","o","b","i","n">>}

LocalParts ==
  SeqsUpTo(HeuristicChars, MaxLocalLen) \cup SampleLocalParts

\* what can follow the local part: nothing, digits, separators, separators
\* then digits, and (not a suffix the stripping removes whole) a digit
\* then a separator
Suffixes ==
  {<<>>, <<"4","2">>, <<".">>, <<"-","_">>, <<"_","4">>, <<".","-","4","2">>,
   <<"4",".">>}

Domain_d ==
  <<"@","d">>

\* the heuristic is called on local_base + suffix @d
_extract_name_from_email_full ==
  /\ heuristic_pc = "idle"
  /\ \E base \in LocalParts, tail \in Suffixes :
       /\ local_base' = base
       /\ suffix' = tail
       /\ name_full' = _extract_name_from_email(base \o tail \o Domain_d)
  /\ heuristic_pc' = "called"
  /\ UNCHANGED name_base
  /\ UNCHANGED <<people_service, gmail_service, pc, mode, event, i, attendees_info,
                 organizer_name, organizer_email, calls, organizer_calls, failed, runs,
                 first, day_vars, lookup_vars, ai_vars, server_vars>>

\* the heuristic is called on local_base @d
_extract_name_from_email_base ==
  /\ heuristic_pc = "called"
  /\ name_base' = _extract_name_from_email(local_base \o Domain_d)
  /\ heuristic_pc' = "compared"
  /\ UNCHANGED <<local_base, suffix, name_full>>
  /\ UNCHANGED <<people_service, gmail_service, pc, mode, event, i, attendees_info,
                 organizer_name, organizer_email, calls, organizer_calls, failed, runs,
                 first, day_vars, lookup_vars, ai_vars, server_vars>>

\* the heuristic reads nothing of the agent
HeuristicInit ==
  /\ people_service = FALSE
  /\ gmail_service = FALSE
  /\ use_enhanced_extraction = FALSE
  /\ DayIdle
  /\ HeuristicIdle
  /\ LookupIdle
  /\ AiIdle
  /\ ServerIdle
  /\ ExtractionIdle

HeuristicNext ==
  \/ _extract_name_from_email_full
  \/ _extract_name_from_email_base

HeuristicSpec ==
  HeuristicInit /\ [][HeuristicNext]_vars

----------------------------------------------------------------------------
(* The extraction mode: set_enhanced_extraction, and the entry points that *)
(* process single meetings                                                 *)

\* how many times set_enhanced_extraction is called on one agent
MaxSetCalls ==
  2

\* A setter that turns the enhanced extraction on but never off; C30 must
\* reject it.
set_enhanced_extraction_only_enabling(enabled) ==
  /\ day_pc = "idle"
  /\ set_calls < MaxSetCalls
  /\ use_enhanced_extraction' = (use_enhanced_extraction \/ enabled)
  /\ last_enabled' = enabled
  /\ set_calls' = set_calls + 1
  /\ UNCHANGED <<day_pc, entry_point, target_date, list_outcome, day_events,
                 meeting_index, attendee_index, attendee_frequency,
                 attendee_name_mapping, meeting_attendee_mapping, day_result,
                 handler_calls, meeting_infos, tool_vars>>
  /\ UNCHANGED <<people_service, gmail_service, pc, mode, event, i, attendees_info,
                 organizer_name, organizer_email, calls, organizer_calls, failed, runs,
                 first, heuristic_vars, lookup_vars, ai_vars, server_vars>>

\* set_enhanced_extraction(enabled), lines 708-713
set_enhanced_extraction(enabled) ==
  /\ day_pc = "idle"
  /\ set_calls < MaxSetCalls
  /\ use_enhanced_extraction' = enabled
  /\ last_enabled' = enabled
  /\ set_calls' = set_calls + 1
  /\ UNCHANGED <<day_pc, entry_point, target_date, list_outcome, day_events,
                 meeting_index, attendee_index, attendee_frequency,
                 attendee_name_mapping, meeting_attendee_mapping, day_result,
                 handler_calls, meeting_infos, tool_vars>>
  /\ UNCHANGED <<people_service, gmail_service, pc, mode, event, i, attendees_info,
                 organizer_name, organizer_email, calls, organizer_calls, failed, runs,
                 first, heuristic_vars, lookup_vars, ai_vars, server_vars>>

\* the events an entry point hands to process_meeting, each processed by
\* process_meeting (lines 723, 732, 759), and what it returns
ReturnMeetingInfos(entry, outcome, events) ==
  /\ entry_point' = entry
  /\ list_outcome' = outcome
  /\ day_pc' = IF outcome.kind = "other_exception" THEN "raised" ELSE "returned"
  /\ handler_calls' = [k \in 1..Len(events) |-> "process_meeting"]
  /\ meeting_infos' = [k \in 1..Len(events) |-> process_meeting(events[k])]
  /\ UNCHANGED <<use_enhanced_extraction, last_enabled, set_calls, target_date,
                 day_events, meeting_index, attendee_index, attendee_frequency,
                 attendee_name_mapping, meeting_attendee_mapping, day_result, tool_vars>>
  /\ UNCHANGED <<people_service, gmail_service, pc, mode, event, i, attendees_info,
                 organizer_name, organizer_email, calls, organizer_calls, failed, runs,
                 first, heuristic_vars, lookup_vars, ai_vars, server_vars>>

\* get_next_meeting_info, lines 715-723, with get_upcoming_meetings, lines
\* 196-215: an HttpError gives the empty list, no meeting gives None, else
\* the first listed event is processed
get_next_meeting_info ==
  /\ day_pc = "idle"
  /\ \E outcome \in ListOutcomes :
       ReturnMeetingInfos("get_next_meeting_info", outcome, TakeFirst(outcome.items, 1))

\* what events().get(...).execute() can do, line 220: return the event,
\* raise HttpError, or raise an exception that is not an HttpError
GetOutcomes ==
  {ev \in ListOutcomes : Len(ev.items) <= 1 /\ ev # Listed(<<>>)}

\* get_meeting_info_by_id, lines 725-732, with get_meeting_by_id, lines
\* 217-227: an HttpError gives None, else the event is processed
get_meeting_info_by_id ==
  /\ day_pc = "idle"
  /\ \E outcome \in GetOutcomes :
       ReturnMeetingInfos("get_meeting_info_by_id", outcome, outcome.items)

\* the max_results the search is called with: 1, and the default of line 734
SearchLimits ==
  {1, 5}

\* search_meetings_by_keyword, lines 734-766: an HttpError gives the empty
\* list, else the listed events are processed until max_results are
SearchMeetingsByKeyword(max_results) ==
  /\ day_pc = "idle"
  /\ \E outcome \in ListOutcomes :
       ReturnMeetingInfos("search_meetings_by_keyword", outcome,
                          TakeFirst(outcome.items, max_results))

search_meetings_by_keyword ==
  \E max_results \in SearchLimits : SearchMeetingsByKeyword(max_results)

\* __init__ / _authenticate, lines 144 and 182-194
ModeInit ==
  /\ people_service \in BOOLEAN
  /\ gmail_service \in BOOLEAN
  /\ use_enhanced_extraction \in BOOLEAN
  /\ DayIdle
  /\ HeuristicIdle
  /\ LookupIdle
  /\ AiIdle
  /\ ServerIdle
  /\ ExtractionIdle

ModeNext ==
  \/ \E enabled \in BOOLEAN : set_enhanced_extraction(enabled)
  \/ get_events_for_day
  \/ get_next_meeting_info
  \/ get_meeting_info_by_id
  \/ search_meetings_by_keyword

ModeSpec ==
  ModeInit /\ [][ModeNext]_vars

----------------------------------------------------------------------------
(* The tools get_day_events and get_attendees_for_day of                   *)
(* calendar_search_agent.py.  The text a tool returns is modelled as the   *)
(* sequence of its lines, a line as the literal text of its format string  *)
(* (label) and the text of the value formatted into it.                    *)

\* str(n) for n >= 0
RECURSIVE IntStr(_)
IntStr(n) ==
  IF n < 10 THEN <<DigitSeq[n + 1]>>
  ELSE IntStr(n \div 10) \o <<DigitSeq[(n % 10) + 1]>>

\* ', '.join(parts)
RECURSIVE JoinComma(_)
JoinComma(parts) ==
  IF parts = <<>> THEN <<>>
  ELSE IF Len(parts) = 1 THEN parts[1]
  ELSE parts[1] \o <<",", " ">> \o JoinComma(Tail(parts))

Line(label, value) ==
  [label |-> label, value |-> value]

\* date_input.strip().strip('"\''), lines 112 and 174
NormalizedDate(input) ==
  StrStrip(StrStrip(input, WhitespaceChars), QuoteChars)

\* hasattr(obj, name), for an object modelled as the record of its fields
HasAttr(obj, name) ==
  name \in DOMAIN obj

\* d.get(key, default), for a dict modelled as a record
GetItem(d, key, default) ==
  IF key \in DOMAIN d THEN d[key] ELSE default

\* str(e) of the AttributeError of line 134: DayEventsInfo (lines 125-135)
\* has the fields date, total_events, meetings and summary_info
AttributeErrorText ==
  <<"'","D","a","y","E","v","e","n","t","s","I","n","f","o","'"," ","o","b","j","e","c","t"," ","h","a","s"," ","n","o"," ","a","t","t","r","i","b","u","t","e"," ","'","e","v","e","n","t","s","'">>

\* lines 134-140, one event of the listing (time and location left out)
EventLines(meeting) ==
  <<Line("event", meeting.meeting_title)>>
    \o (IF meeting.attendees # <<>>
          THEN <<Line("Attendees",
                      JoinComma([k \in 1..Len(meeting.attendees) |->
                                   meeting.attendees[k].display_name]))>>
          ELSE <<>>)

RECURSIVE EventsLines(_)
EventsLines(meetings) ==
  IF meetings = <<>> THEN <<>>
  ELSE EventLines(Head(meetings)) \o EventsLines(Tail(meetings))

\* sum(len(e.attendees or []) for e in day_events.events), line 123
RECURSIVE CountAttendees(_)
CountAttendees(meetings) ==
  IF meetings = <<>> THEN 0
  ELSE Len(Head(meetings).attendees) + CountAttendees(Tail(meetings))

\* get_day_events, lines 116-145, after agent.get_events_for_day returned
\* info or raised an exception of text error
GetDayEventsText(normalized_date, raised, error, info) ==
  IF raised THEN <<Line("Error getting day events", error)>>
  ELSE IF info.total_events = 0
    THEN <<Line("No events found for", normalized_date)>>
  ELSE IF ~HasAttr(info, "events")
    THEN <<Line("Error getting day events", AttributeErrorText)>>
  ELSE <<Line("Events for", normalized_date),
         Line("Total Events", IntStr(info.total_events)),
         Line("Total Attendees", IntStr(CountAttendees(info.events)))>>
         \o EventsLines(info.events)

\* lines 189-190
AttendeeLine(attendee) ==
  Line("attendee", GetItem(attendee, "name", Unknown) \o <<" ", "(">>
                     \o GetItem(attendee, "email", <<>>) \o <<")">>)

\* lines 196-198
MeetingLines(meeting) ==
  <<Line("meeting", GetItem(meeting, "title", <<>>)),
    Line("Attendees", JoinComma(GetItem(meeting, "attendees", <<>>)))>>

RECURSIVE MeetingsLines(_)
MeetingsLines(meetings) ==
  IF meetings = <<>> THEN <<>>
  ELSE MeetingLines(Head(meetings)) \o MeetingsLines(Tail(meetings))

\* get_attendees_for_day, lines 178-203, after
\* agent.get_attendee_info_for_day returned attendee_info or raised
GetAttendeesForDayText(normalized_date, raised, error, attendee_info) ==
  IF raised THEN <<Line("Error getting attendees for day", error)>>
  ELSE IF DOMAIN attendee_info = {}
    THEN <<Line("No attendee information found for", normalized_date)>>
  ELSE LET all_attendees   == GetItem(attendee_info, "all_attendees", <<>>)
           meeting_details == GetItem(attendee_info, "meeting_details", <<>>)
       IN  <<Line("Attendee Information for", normalized_date),
             Line("Total Unique Attendees",
                  IntStr(GetItem(attendee_info, "total_unique_attendees", 0))),
             Line("Total Meetings", IntStr(GetItem(attendee_info, "total_meetings", 0)))>>
             \o (IF all_attendees # <<>>
                   THEN <<Line("All Attendees", <<>>)>>
                          \o [k \in 1..Len(all_attendees) |-> AttendeeLine(all_attendees[k])]
                   ELSE <<>>)
             \o (IF meeting_details # <<>>
                   THEN <<Line("Meeting Details", <<>>)>> \o MeetingsLines(meeting_details)
                   ELSE <<>>)

\* what the tools are called with: a date, the date in double quotes with
\* blanks around it, a text that is no date, nothing
DateInputs ==
  {<<"2","0","2","4","-","0","1","-","1","5">>,
   <<" ","\"">> \o <<"2","0","2","4","-","0","1","-","1","5">> \o <<"\""," ">>,
   <<"t","o","d","a","y">>,
   <<>>}

\* line 108: the tool is called; it builds an agent and calls
\* get_events_for_day with the normalized input, lines 112-114
get_day_events ==
  /\ tool_pc = "idle"
  /\ day_pc = "idle"
  /\ \E input \in DateInputs :
       /\ date_input' = input
       /\ CallGetEventsForDay("get_events_for_day", NormalizedDate(input))
  /\ tool' = "get_day_events"
  /\ tool_pc' = "called"
  /\ UNCHANGED tool_output

\* lines 116-145: the text of the tool
get_day_events_return ==
  /\ tool_pc = "called"
  /\ tool = "get_day_events"
  /\ day_pc \in {"returned", "raised"}
  /\ tool_output' = GetDayEventsText(target_date, day_pc = "raised", list_outcome.error,
                                     day_events)
  /\ tool_pc' = "returned"
  /\ UNCHANGED <<tool, date_input>>
  /\ UNCHANGED <<use_enhanced_extraction, day_pc, entry_point, target_date, list_outcome,
                 day_events, meeting_index, attendee_index, attendee_frequency,
                 attendee_name_mapping, meeting_attendee_mapping, day_result, mode_vars>>
  /\ UNCHANGED <<people_service, gmail_service, pc, mode, event, i, attendees_info,
                 organizer_name, organizer_email, calls, organizer_calls, failed, runs,
                 first, heuristic_vars, lookup_vars, ai_vars, server_vars>>

\* line 170: the tool is called; it builds an agent and calls
\* get_attendee_info_for_day with the normalized input, lines 174-176
get_attendees_for_day ==
  /\ tool_pc = "idle"
  /\ day_pc = "idle"
  /\ \E input \in DateInputs :
       /\ date_input' = input
       /\ CallGetEventsForDay("get_attendee_info_for_day", NormalizedDate(input))
  /\ tool' = "get_attendees_for_day"
  /\ tool_pc' = "called"
  /\ UNCHANGED tool_output

\* lines 178-203: the text of the tool
get_attendees_for_day_return ==
  /\ tool_pc = "called"
  /\ tool = "get_attendees_for_day"
  /\ day_pc \in {"returned", "raised"}
  /\ tool_output' = GetAttendeesForDayText(target_date, day_pc = "raised",
                                           list_outcome.error, day_result)
  /\ tool_pc' = "returned"
  /\ UNCHANGED <<tool, date_input>>
  /\ UNCHANGED <<use_enhanced_extraction, day_pc, entry_point, target_date, list_outcome,
                 day_events, meeting_index, attendee_index, attendee_frequency,
                 attendee_name_mapping, meeting_attendee_mapping, day_result, mode_vars>>
  /\ UNCHANGED <<people_service, gmail_service, pc, mode, event, i, attendees_info,
                 organizer_name, organizer_email, calls, organizer_calls, failed, runs,
                 first, heuristic_vars, lookup_vars, ai_vars, server_vars>>

\* CalendarAgent(), lines 113 and 175: the agent of a tool call is new, its
\* extraction mode the environment's, its lookup services built or not
ToolInit ==
  /\ people_service \in BOOLEAN
  /\ gmail_service \in BOOLEAN
  /\ use_enhanced_extraction \in BOOLEAN
  /\ DayIdle
  /\ HeuristicIdle
  /\ LookupIdle
  /\ AiIdle
  /\ ServerIdle
  /\ ExtractionIdle

ToolNext ==
  \/ get_day_events
  \/ get_day_events_return
  \/ get_attendees_for_day
  \/ get_attendee_info_for_day_attendee
  \/ get_attendee_info_for_day_meeting
  \/ get_attendee_info_for_day_return
  \/ get_attendees_for_day_return

ToolSpec ==
  ToolInit /\ [][ToolNext]_vars

----------------------------------------------------------------------------
(* meeting_agent_server.py: the lazily built agents.  The server answers   *)
(* each request in a thread of its own (app.run, line 287); a thread may   *)
(* be preempted between any two statements, so a request is modelled by    *)
(* its position in health_check and the steps of the ensure_ functions are *)
(* interleaved freely.                                                     *)

\* how many requests the server handles at the same time
MaxRequests ==
  2

Requests ==
  1..MaxRequests

NotAnAgent ==
  0

\* GET /health reaches line 51
health_check(t) ==
  /\ request_pc[t] = "idle"
  /\ request_pc' = [request_pc EXCEPT ![t] = "ensure_calendar_agent"]
  /\ UNCHANGED <<calendar_agent, meeting_agent, returned_agent, constructions>>
  /\ UNCHANGED <<people_service, gmail_service, pc, mode, event, i, attendees_info,
                 organizer_name, organizer_email, calls, organizer_calls, failed, runs,
                 first, day_vars, heuristic_vars, lookup_vars, ai_vars>>

\* line 35: if calendar_agent is None
ensure_calendar_agent_test(t) ==
  /\ request_pc[t] = "ensure_calendar_agent"
  /\ request_pc' = [request_pc EXCEPT ![t] = IF calendar_agent = NotAnAgent
                                              THEN "construct_calendar_agent"
                                              ELSE "return_calendar_agent"]
  /\ UNCHANGED <<calendar_agent, meeting_agent, returned_agent, constructions>>
  /\ UNCHANGED <<people_service, gmail_service, pc, mode, event, i, attendees_info,
                 organizer_name, organizer_email, calls, organizer_calls, failed, runs,
                 first, day_vars, heuristic_vars, lookup_vars, ai_vars>>

\* line 36: CalendarPersonResearchAgent() returns a new instance, which is
\* assigned to the global
ensure_calendar_agent_construct(t) ==
  /\ request_pc[t] = "construct_calendar_agent"
  /\ constructions' = [constructions EXCEPT !.calendar_agent = @ + 1]
  /\ calendar_agent' = constructions.calendar_agent + 1
  /\ request_pc' = [request_pc EXCEPT ![t] = "return_calendar_agent"]
  /\ UNCHANGED <<meeting_agent, returned_agent>>
  /\ UNCHANGED <<people_service, gmail_service, pc, mode, event, i, attendees_info,
                 organizer_name, organizer_email, calls, organizer_calls, failed, runs,
                 first, day_vars, heuristic_vars, lookup_vars, ai_vars>>

\* line 36: CalendarPersonResearchAgent() raises; health_check goes on at
\* line 52 with the global as it was
ensure_calendar_agent_raise(t) ==
  /\ request_pc[t] = "construct_calendar_agent"
  /\ request_pc' = [request_pc EXCEPT ![t] = "ensure_meeting_agent"]
  /\ UNCHANGED <<calendar_agent, meeting_agent, returned_agent, constructions>>
  /\ UNCHANGED <<people_service, gmail_service, pc, mode, event, i, attendees_info,
                 organizer_name, organizer_email, calls, organizer_calls, failed, runs,
                 first, day_vars, heuristic_vars, lookup_vars, ai_vars>>

\* line 37: return calendar_agent
ensure_calendar_agent_return(t) ==
  /\ request_pc[t] = "return_calendar_agent"
  /\ returned_agent' = [returned_agent EXCEPT ![t].calendar_agent = calendar_agent]
  /\ request_pc' = [request_pc EXCEPT ![t] = "ensure_meeting_agent"]
  /\ UNCHANGED <<calendar_agent, meeting_agent, constructions>>
  /\ UNCHANGED <<people_service, gmail_service, pc, mode, event, i, attendees_info,
                 organizer_name, organizer_email, calls, organizer_calls, failed, runs,
                 first, day_vars, heuristic_vars, lookup_vars, ai_vars>>

\* line 41: if meeting_agent is None
ensure_meeting_agent_test(t) ==
  /\ request_pc[t] = "ensure_meeting_agent"
  /\ request_pc' = [request_pc EXCEPT ![t] = IF meeting_agent = NotAnAgent
                                              THEN "construct_meeting_agent"
                                              ELSE "return_meeting_agent"]
  /\ UNCHANGED <<calendar_agent, meeting_agent, returned_agent, constructions>>
  /\ UNCHANGED <<people_service, gmail_service, pc, mode, event, i, attendees_info,
                 organizer_name, organizer_email, calls, organizer_calls, failed, runs,
                 first, day_vars, heuristic_vars, lookup_vars, ai_vars>>

\* line 42: create_meeting_agent() returns a new instance, which is assigned
\* to the global
ensure_meeting_agent_construct(t) ==
  /\ request_pc[t] = "construct_meeting_agent"
  /\ constructions' = [constructions EXCEPT !.meeting_agent = @ + 1]
  /\ meeting_agent' = constructions.meeting_agent + 1
  /\ request_pc' = [request_pc EXCEPT ![t] = "return_meeting_agent"]
  /\ UNCHANGED <<calendar_agent, returned_agent>>
  /\ UNCHANGED <<people_service, gmail_service, pc, mode, event, i, attendees_info,
                 organizer_name, organizer_email, calls, organizer_calls, failed, runs,
                 first, day_vars, heuristic_vars, lookup_vars, ai_vars>>

\* line 42: create_meeting_agent() raises; health_check goes on at line 57
ensure_meeting_agent_raise(t) ==
  /\ request_pc[t] = "construct_meeting_agent"
  /\ request_pc' = [request_pc EXCEPT ![t] = "responded"]
  /\ UNCHANGED <<calendar_agent, meeting_agent, returned_agent, constructions>>
  /\ UNCHANGED <<people_service, gmail_service, pc, mode, event, i, attendees_info,
                 organizer_name, organizer_email, calls, organizer_calls, failed, runs,
                 first, day_vars, heuristic_vars, lookup_vars, ai_vars>>

\* line 43: return meeting_agent, and the response of lines 59-64
ensure_meeting_agent_return(t) ==
  /\ request_pc[t] = "return_meeting_agent"
  /\ returned_agent' = [returned_agent EXCEPT ![t].meeting_agent = meeting_agent]
  /\ request_pc' = [request_pc EXCEPT ![t] = "responded"]
  /\ UNCHANGED <<calendar_agent, meeting_agent, constructions>>
  /\ UNCHANGED <<people_service, gmail_service, pc, mode, event, i, attendees_info,
                 organizer_name, organizer_email, calls, organizer_calls, failed, runs,
                 first, day_vars, heuristic_vars, lookup_vars, ai_vars>>

\* lines 30-31: a new server process
ServerInit ==
  /\ people_service = FALSE
  /\ gmail_service = FALSE
  /\ use_enhanced_extraction = FALSE
  /\ DayIdle
  /\ HeuristicIdle
  /\ LookupIdle
  /\ AiIdle
  /\ calendar_agent = NotAnAgent
  /\ meeting_agent = NotAnAgent
  /\ request_pc = [t \in Requests |-> "idle"]
  /\ returned_agent = [t \in Requests |->
                         [calendar_agent |-> NotAnAgent, meeting_agent |-> NotAnAgent]]
  /\ constructions = [calendar_agent |-> 0, meeting_agent |-> 0]
  /\ ExtractionIdle

ServerNext ==
  \E t \in Requests :
    \/ health_check(t)
    \/ ensure_calendar_agent_test(t)
    \/ ensure_calendar_agent_construct(t)
    \/ ensure_calendar_agent_raise(t)
    \/ ensure_calendar_agent_return(t)
    \/ ensure_meeting_agent_test(t)
    \/ ensure_meeting_agent_construct(t)
    \/ ensure_meeting_agent_raise(t)
    \/ ensure_meeting_agent_return(t)

ServerSpec ==
  ServerInit /\ [][ServerNext]_vars

----------------------------------------------------------------------------
(* extract_person_names_basic: the four patterns, matched with             *)
(* re.IGNORECASE, character by character; positions are 1-based            *)

LetterSet ==
  LowerSet \cup UpperSet

\* \w
IsWordChar(c) ==
  c \in LetterSet \/ c \in DigitChars \/ c = "_"

\* \b just before s[p]
WordBoundary(s, p) ==
  LET before == p > 1 /\ IsWordChar(s[p - 1])
      after  == p <= Len(s) /\ IsWordChar(s[p])
  IN  before # after

\* the literal lit (in lower case) at s[p], letter case ignored
LiteralAt(s, p, lit) ==
  /\ p + Len(lit) - 1 <= Len(s)
  /\ StrLower(SubSeq(s, p, p + Len(lit) - 1)) = lit

\* [A-Z][a-z]+ at s[p]: under re.IGNORECASE a run of two or more letters;
\* the position after it, 0 when there is no match
NameEnd(s, p) ==
  LET n == LeadingRun(DropFirst(s, p - 1), LetterSet)
  IN  IF n >= 2 THEN p + n ELSE 0

\* \s* at s[p]: the position after the whitespace
SpacesEnd(s, p) ==
  p + LeadingRun(DropFirst(s, p - 1), WhitespaceChars)

\* \s+ at s[p]: the position after the whitespace, 0 when there is none
SpaceEnd(s, p) ==
  IF SpacesEnd(s, p) > p THEN SpacesEnd(s, p) ELSE 0

\* (?:\s+[A-Z][a-z]+)* after a name that ends before s[q]
RECURSIVE MoreNames(_, _)
MoreNames(s, q) ==
  LET sp == SpaceEnd(s, q)
      e  == IF sp = 0 THEN 0 ELSE NameEnd(s, sp)
  IN  IF e = 0 THEN q ELSE MoreNames(s, e)

\* [A-Z][a-z]+(?:\s+[A-Z][a-z]+)* at s[p]
NamesEnd(s, p) ==
  LET e == NameEnd(s, p)
  IN  IF e = 0 THEN 0 ELSE MoreNames(s, e)

\* (?:,\s*[A-Z][a-z]+(?:\s+[A-Z][a-z]+)*)* after names that end before s[q]
RECURSIVE MoreNameLists(_, _)
MoreNameLists(s, q) ==
  LET e == IF q <= Len(s) /\ s[q] = "," THEN NamesEnd(s, SpacesEnd(s, q + 1)) ELSE 0
  IN  IF e = 0 THEN q ELSE MoreNameLists(s, e)

NoMatch ==
  [ok |-> FALSE, lo |-> 0, hi |-> 0, end |-> 0]

\* a match whose group is s[lo..hi] and that ends before s[end]
Matched(lo, hi, end) ==
  [ok |-> TRUE, lo |-> lo, hi |-> hi, end |-> end]

Lit_with ==
  <<"w","i","t","h">>

Lit_meeting ==
  <<"m","e","e","t","i","n","g">>

Lit_attendee ==
  <<"a","t","t","e","n","d","e","e">>

\* (?:will|is|has), tried in this order
Lit_verbs ==
  << <<"w","i","l","l">>, <<"i","s">>, <<"h","a","s">> >>

\* \s+([A-Z][a-z]+(?:\s+[A-Z][a-z]+)*) at s[p]
SpaceThenNames(s, p) ==
  LET sp == SpaceEnd(s, p)
      e  == IF sp = 0 THEN 0 ELSE NamesEnd(s, sp)
  IN  IF e = 0 THEN NoMatch ELSE Matched(sp, e - 1, e)

\* line 233: \bwith\s+([A-Z][a-z]+(?:\s+[A-Z][a-z]+)*)
MatchWith(s, p) ==
  IF WordBoundary(s, p) /\ LiteralAt(s, p, Lit_with)
    THEN SpaceThenNames(s, p + Len(Lit_with))
    ELSE NoMatch

\* line 234: \bmeeting\s+with\s+([A-Z][a-z]+(?:\s+[A-Z][a-z]+)*)
MatchMeetingWith(s, p) ==
  LET sp == IF WordBoundary(s, p) /\ LiteralAt(s, p, Lit_meeting)
              THEN SpaceEnd(s, p + Len(Lit_meeting)) ELSE 0
  IN  IF sp # 0 /\ LiteralAt(s, sp, Lit_with)
        THEN SpaceThenNames(s, sp + Len(Lit_with))
        ELSE NoMatch

\* line 235: \b([A-Z][a-z]+\s+[A-Z][a-z]+)\s+(?:will|is|has)
MatchNameVerb(s, p) ==
  LET e1  == IF WordBoundary(s, p) THEN NameEnd(s, p) ELSE 0
      sp1 == IF e1 = 0 THEN 0 ELSE SpaceEnd(s, e1)
      e2  == IF sp1 = 0 THEN 0 ELSE NameEnd(s, sp1)
      sp2 == IF e2 = 0 THEN 0 ELSE SpaceEnd(s, e2)
      verbs == {k \in 1..Len(Lit_verbs) : sp2 # 0 /\ LiteralAt(s, sp2, Lit_verbs[k])}
  IN  IF verbs = {} THEN NoMatch
      ELSE LET k == CHOOSE v \in verbs : \A w \in verbs : v <= w
           IN  Matched(p, e2 - 1, sp2 + Len(Lit_verbs[k]))

\* line 236: \bAttendees?:\s*(names(?:,\s*names)*)
MatchAttendees(s, p) ==
  LET a == p + Len(Lit_attendee)
      c == IF ~(WordBoundary(s, p) /\ LiteralAt(s, p, Lit_attendee)) THEN 0
           ELSE IF LiteralAt(s, a, <<"s",":">>) THEN a + 2
           ELSE IF LiteralAt(s, a, <<":">>) THEN a + 1
           ELSE 0
      lo == IF c = 0 THEN 0 ELSE SpacesEnd(s, c)
      e  == IF c = 0 THEN 0 ELSE NamesEnd(s, lo)
  IN  IF e = 0 THEN NoMatch
      ELSE Matched(lo, MoreNameLists(s, e) - 1, MoreNameLists(s, e))

\* the k-th pattern of the list of lines 232-237 at s[p]
PatternMatch(k, s, p) ==
  CASE k = 1 -> MatchWith(s, p)
    [] k = 2 -> MatchMeetingWith(s, p)
    [] k = 3 -> MatchNameVerb(s, p)
    [] k = 4 -> MatchAttendees(s, p)

PatternCount ==
  4

\* re.findall(pattern, text, re.IGNORECASE) from s[p] on: the groups of the
\* non-overlapping matches, leftmost first
RECURSIVE FindAll(_, _, _)
FindAll(k, s, p) ==
  IF p > Len(s) THEN <<>>
  ELSE LET m == PatternMatch(k, s, p)
       IN  IF m.ok THEN <<SubSeq(s, m.lo, m.hi)>> \o FindAll(k, s, m.end)
           ELSE FindAll(k, s, p + 1)

\* lines 243-246: what one match adds to names
NamesOfMatch(match) ==
  IF HasChar(match, ",")
    THEN LET pieces == StrSplit(match, ",")
         IN  [j \in 1..Len(pieces) |-> StrStrip(pieces[j], WhitespaceChars)]
    ELSE <<StrStrip(match, WhitespaceChars)>>

RECURSIVE NamesOfMatches(_)
NamesOfMatches(matches) ==
  IF matches = <<>> THEN <<>>
  ELSE NamesOfMatch(Head(matches)) \o NamesOfMatches(Tail(matches))

\* lines 240-246: names, over the patterns k..4
RECURSIVE NamesFromPattern(_, _)
NamesFromPattern(k, text) ==
  IF k > PatternCount THEN <<>>
  ELSE NamesOfMatches(FindAll(k, text, 1)) \o NamesFromPattern(k + 1, text)

exclude_words ==
  {<<"M","e","e","t","i","n","g">>,
   <<"C","a","l","l">>,
   <<"D","i","s","c","u","s","s","i","o","n">>,
   <<"R","e","v","i","e","w">>,
   <<"S","y","n","c">>,
   <<"S","t","a","n","d","u","p">>,
   <<"T","e","a","m">>}

\* lines 250-253: the names that are neither seen before nor excluded
RECURSIVE UniqueNames(_, _)
UniqueNames(names, unique_names) ==
  IF names = <<>> THEN unique_names
  ELSE LET name == Head(names)
       IN  IF (\A j \in 1..Len(unique_names) : unique_names[j] # name)
                /\ name \notin exclude_words
             THEN UniqueNames(Tail(names), Append(unique_names, name))
             ELSE UniqueNames(Tail(names), unique_names)

\* CalendarAgent.extract_person_names_basic
extract_person_names_basic(text) ==
  UniqueNames(NamesFromPattern(1, text), <<>>)

----------------------------------------------------------------------------
(* extract_meeting_info_with_ai                                            *)

\* the tuple of the two returned values
TitleAndNames(meeting_title, person_names) ==
  [meeting_title |-> meeting_title, person_names |-> person_names]

\* lines 261 and 295: the calendar title and the names of the patterns
BasicFallback(description, title) ==
  [raised |-> FALSE,
   value  |-> TitleAndNames(title, extract_person_names_basic(description))]

\* An extraction whose try block has no except clause: what the call or
\* the decoding of the reply raises escapes; C24 must reject it.
extract_meeting_info_with_ai_propagating(api_key, description, title, outcome) ==
  IF ~api_key THEN BasicFallback(description, title)
  ELSE IF outcome.kind = "raises" \/ outcome.content.json # "object"
    THEN [raised |-> TRUE, value |-> NoTuple]
  ELSE [raised |-> FALSE,
        value  |-> TitleAndNames(DictGet(outcome.content.items, "meeting_title", title),
                                 DictGet(outcome.content.items, "person_names", <<>>))]

\* CalendarAgent.extract_meeting_info_with_ai, lines 257-295.  outcome is
\* what openai.chat.completions.create did: [kind |-> "raises"], or
\* [kind |-> "reply", content |-> c] with c the content of the first choice
\* as json.loads takes it: "not_text" (None: TypeError), "invalid"
\* (JSONDecodeError), "array" (a JSON value without get: AttributeError at
\* line 290), or "object" with its items.  All of these exceptions are
\* caught at line 292.
extract_meeting_info_with_ai(api_key, description, title, outcome) ==
  IF ~api_key THEN BasicFallback(description, title)
  ELSE IF outcome.kind = "raises" THEN BasicFallback(description, title)
  ELSE IF outcome.content.json # "object" THEN BasicFallback(description, title)
  ELSE [raised |-> FALSE,
        value  |-> TitleAndNames(DictGet(outcome.content.items, "meeting_title", title),
                                 DictGet(outcome.content.items, "person_names", <<>>))]

Title_ai ==
  <<"A","I">>

Name_bo ==
  <<"B","o"," ","L","i">>

\* reply contents: None, text that is not JSON, a JSON array, and JSON
\* objects with none, one or both of the two keys
ReplyContents ==
  {[json |-> "not_text", items |-> <<>>],
   [json |-> "invalid", items |-> <<>>],
   [json |-> "array", items |-> <<>>],
   [json |-> "object", items |-> <<>>],
   [json |-> "object", items |-> <<[key |-> "meeting_title", value |-> Title_ai]>>],
   [json |-> "object", items |-> <<[key |-> "person_names", value |-> <<Name_bo>>]>>],
   [json |-> "object", items |-> <<[key |-> "meeting_title", value |-> Title_ai],
                                   [key |-> "person_names", value |-> <<Name_bo>>]>>]}

AiOutcomes ==
  {[kind |-> "raises", content |-> [json |-> "not_text", items |-> <<>>]]}
    \cup {[kind |-> "reply", content |-> c] : c \in ReplyContents}

AiTitles ==
  {Title_s, Title_t, <<>>}

\* descriptions: empty, and texts the four patterns find names in (also an
\* excluded word and a name found by two patterns)
AiDescriptions ==
  {<<>>,
   <<"S","y","n","c"," ","w","i","t","h"," ","J","o","h","n"," ","S","m","i","t","h">>,
   <<"m","e","e","t","i","n","g"," ","w","i","t","h"," ","A","l"," ","P","o",","," ","B","o"," ","L","i">>,
   <<"A","t","t","e","n","d","e","e","s",":"," ","J","o"," ","L","i",","," ","A","l"," ","P","o">>,
   <<"A","l"," ","P","o"," ","w","i","l","l"," ","c","a","l","l">>,
   <<"w","i","t","h"," ","T","e","a","m">>,
   <<"A","l"," ","P","o"," ","i","s"," ","w","i","t","h"," ","A","l"," ","P","o">>}

\* a caller passes a description and a title, line 257
extract_meeting_info_with_ai_call ==
  /\ ai_pc = "idle"
  /\ ai_title' \in AiTitles
  /\ ai_description' \in AiDescriptions
  /\ ai_outcome' \in IF openai_api_key THEN AiOutcomes ELSE {NoReply}
  /\ ai_pc' = "called"
  /\ UNCHANGED <<openai_api_key, ai_result>>
  /\ UNCHANGED <<people_service, gmail_service, pc, mode, event, i, attendees_info,
                 organizer_name, organizer_email, calls, organizer_calls, failed, runs,
                 first, day_vars, heuristic_vars, lookup_vars, server_vars>>

\* lines 259-295: the method runs to its return, or raises
extract_meeting_info_with_ai_return ==
  /\ ai_pc = "called"
  /\ LET r == extract_meeting_info_with_ai(openai_api_key, ai_description, ai_title,
                                           ai_outcome)
     IN  /\ ai_result' = r.value
         /\ ai_pc' = IF r.raised THEN "raised" ELSE "returned"
  /\ UNCHANGED <<openai_api_key, ai_title, ai_description, ai_outcome>>
  /\ UNCHANGED <<people_service, gmail_service, pc, mode, event, i, attendees_info,
                 organizer_name, organizer_email, calls, organizer_calls, failed, runs,
                 first, day_vars, heuristic_vars, lookup_vars, server_vars>>

\* __init__, line 143: the key comes from the environment
AiInit ==
  /\ people_service = FALSE
  /\ gmail_service = FALSE
  /\ use_enhanced_extraction = FALSE
  /\ DayIdle
  /\ HeuristicIdle
  /\ LookupIdle
  /\ ai_pc = "idle"
  /\ openai_api_key \in BOOLEAN
  /\ ai_title = <<>>
  /\ ai_description = <<>>
  /\ ai_outcome = NoReply
  /\ ai_result = NoTuple
  /\ ServerIdle
  /\ ExtractionIdle

AiNext ==
  \/ extract_meeting_info_with_ai_call
  \/ extract_meeting_info_with_ai_return

AiSpec ==
  AiInit /\ [][AiNext]_vars

----------------------------------------------------------------------------
(* get_contact_name_from_gmail_api on its own                              *)

\* the largest number of messages the search from:email lists (the code
\* asks for at most 5, line 479)
MaxMessages ==
  2

LookupEmails ==
  {Email_js, Email_12}

\* From header values: 'Al <email>', the address in double quotes before
\* <email>, the address in single quotes before <email>, only quote
\* characters before <email>, the bare address before <email>, nothing
\* before <email>, the bare address, 'email (Al)', 'email ()'
FromValues(email) ==
  {Name_al \o <<" ","<">> \o email \o <<">">>,
   <<"\"">> \o email \o <<"\""," ","<">> \o email \o <<">">>,
   <<"'">> \o email \o <<"'"," ","<">> \o email \o <<">">>,
   <<"\"","\""," ","<">> \o email \o <<">">>,
   email \o <<" ","<">> \o email \o <<">">>,
   <<"<">> \o email \o <<">">>,
   email,
   email \o <<" ","(">> \o Name_al \o <<")">>,
   email \o <<" ","(",")">>}

\* what messages().get may answer for one listed message: an error, a
\* message without a From header, a message with one From header
LookupMessages(email) ==
  {[raises |-> TRUE, headers |-> <<>>], [raises |-> FALSE, headers |-> <<>>]}
    \cup {Message(v) : v \in FromValues(email)}

\* what the mailbox transport may answer: an error of the search, or the
\* listed messages, most recent first
LookupResponses(email) ==
  {[raises |-> TRUE, messages |-> <<>>]}
    \cup {[raises |-> FALSE, messages |-> m] :
            m \in SeqsUpTo(LookupMessages(email), MaxMessages)}

\* a caller asks the mailbox for an address, line 468
get_contact_name_from_gmail_api_call ==
  /\ lookup_pc = "idle"
  /\ \E email \in LookupEmails :
       \E resp \in LookupResponses(email) :
         /\ lookup_email' = email
         /\ lookup_response' = resp
  /\ lookup_pc' = "called"
  /\ UNCHANGED lookup_name
  /\ UNCHANGED <<people_service, gmail_service, pc, mode, event, i, attendees_info,
                 organizer_name, organizer_email, calls, organizer_calls, failed, runs,
                 first, day_vars, heuristic_vars, ai_vars, server_vars>>

\* lines 470-518: the lookup runs to its return
get_contact_name_from_gmail_api_return ==
  /\ lookup_pc = "called"
  /\ lookup_name' = get_contact_name_from_gmail_api(gmail_service, lookup_email,
                                                     lookup_response)
  /\ lookup_pc' = "returned"
  /\ UNCHANGED <<lookup_email, lookup_response>>
  /\ UNCHANGED <<people_service, gmail_service, pc, mode, event, i, attendees_info,
                 organizer_name, organizer_email, calls, organizer_calls, failed, runs,
                 first, day_vars, heuristic_vars, ai_vars, server_vars>>

\* _authenticate, lines 188-194: the Gmail service may fail to build
LookupInit ==
  /\ people_service = FALSE
  /\ gmail_service \in BOOLEAN
  /\ use_enhanced_extraction = FALSE
  /\ DayIdle
  /\ HeuristicIdle
  /\ LookupIdle
  /\ AiIdle
  /\ ServerIdle
  /\ ExtractionIdle

LookupNext ==
  \/ get_contact_name_from_gmail_api_call
  \/ get_contact_name_from_gmail_api_return

LookupSpec ==
  LookupInit /\ [][LookupNext]_vars

----------------------------------------------------------------------------
(* Vocabulary of the properties                                            *)

\* the handler is past its organizer step and has not crashed
Running ==
  pc \in {"attendees", "done"}

\* the loop has just gone through a raw attendee
AfterIteration ==
  Running /\ i >= 1

\* the raw attendee the loop has just gone through
CurrentAttendee ==
  event.attendees[i]

\* the loop has just resolved a raw attendee that has an email; its entry
\* is the last one of attendees_info
JustResolved ==
  AfterIteration /\ CurrentAttendee.email # <<>>

LastInfo ==
  attendees_info[Len(attendees_info)]

\* what the lookup function `api` returned in a log, None when the log has
\* no call of it
ResultOf(log, api) ==
  IF \E k \in 1..Len(log) : log[k].api = api
    THEN log[CHOOSE k \in 1..Len(log) : log[k].api = api].result
    ELSE NoneVal

CallCount(log, api) ==
  Cardinality({k \in 1..Len(log) : log[k].api = api})

EmailsOf(infos) ==
  [k \in 1..Len(infos) |-> infos[k].email]

----------------------------------------------------------------------------
(* Properties                                                              *)

\* C1: every entry of the attendee list, in BASIC and in ENHANCED mode and
\* whatever the lookups return, has a non-empty display_name.
C1_DisplayNameNonEmpty ==
  Running => \A k \in 1..Len(attendees_info) : attendees_info[k].display_name # <<>>

\* C2: going through an attendee without email adds no entry to the
\* attendee list, makes no lookup and raises nothing, whatever the name
\* fields of the attendee contain, in both handlers.
C2_NoEmailNeverResolved ==
  [][(i' = i + 1 /\ event.attendees[i'].email = <<>>)
       => /\ attendees_info' = attendees_info
          /\ calls' = <<>>
          /\ failed' = failed
          /\ pc' \in {"attendees", "done"}]_vars

C2_Witness ==
  /\ AfterIteration
  /\ mode = "ENHANCED"
  /\ people_service
  /\ gmail_service
  /\ CurrentAttendee.email = <<>>
  /\ CurrentAttendee.displayName # <<>>

\* C3: the name of an attendee with an email is its displayName if that is
\* non-empty, else its 'name' if that is non-empty, else its 'cn' if that is
\* non-empty; no lookup is made and the heuristic is not used unless all
\* three are empty.
C3_ExplicitNameOrder ==
  JustResolved =>
    LET a == CurrentAttendee
    IN  /\ a.displayName # <<>> => LastInfo.display_name = a.displayName
        /\ (a.displayName = <<>> /\ a.name # <<>>) => LastInfo.display_name = a.name
        /\ (a.displayName = <<>> /\ a.name = <<>> /\ a.cn # <<>>)
             => LastInfo.display_name = a.cn
        /\ (a.displayName # <<>> \/ a.name # <<>> \/ a.cn # <<>>) => calls = <<>>

C3_Witness ==
  /\ JustResolved
  /\ mode = "ENHANCED"
  /\ people_service
  /\ CurrentAttendee.displayName = <<>>
  /\ CurrentAttendee.name = Name_nm
  /\ CurrentAttendee.cn = Name_cn
  /\ LastInfo.display_name = Name_nm

\* C4: extract_attendee_info makes no directory and no mailbox lookup, and
\* a second run of it on the same raw event returns the attendees and the
\* organizer of the first run.
C4_BasicNoLookups ==
  mode = "BASIC" =>
    /\ calls = <<>>
    /\ organizer_calls = <<>>
    /\ ~failed
    /\ (pc = "done" /\ runs >= 2) => Result = first

C4_Witness ==
  /\ mode = "BASIC"
  /\ pc = "done"
  /\ runs = 2
  /\ people_service
  /\ gmail_service
  /\ Len(attendees_info) >= 1
  /\ AttendeeExplicitName(event.attendees[1]) = <<>>
  /\ event.organizer = RawOrganizer(Email_js, <<>>, <<>>)

\* C5: in ENHANCED mode the name of an attendee with an email and no
\* explicit name is the directory name if the directory lookup returned a
\* non-empty name, else the mailbox name if the mailbox lookup returned a
\* non-empty name, else the name the email heuristic gives; an available
\* directory is always asked.
C5_EnhancedPriority ==
  (JustResolved /\ mode = "ENHANCED" /\ AttendeeExplicitName(CurrentAttendee) = <<>>) =>
    LET dir  == ResultOf(calls, "people")
        mail == ResultOf(calls, "gmail")
    IN  /\ people_service => CallCount(calls, "people") = 1
        /\ LastInfo.display_name =
             IF Truthy(dir) THEN dir.val
             ELSE IF Truthy(mail) THEN mail.val
             ELSE _extract_name_from_email(CurrentAttendee.email)

C5_Witness ==
  /\ JustResolved
  /\ mode = "ENHANCED"
  /\ AttendeeExplicitName(CurrentAttendee) = <<>>
  /\ ResultOf(calls, "people") = StrVal(<<>>)
  /\ ResultOf(calls, "gmail") = StrVal(Name_al)
  /\ LastInfo.display_name = Name_al

\* C6: in ENHANCED mode the chain stops at the first source that gives a
\* name: an explicit name makes no lookup (attendee and organizer), the
\* mailbox is not asked once the directory returned a non-empty name, and
\* a directory lookup comes before the mailbox lookup of the same attendee.
C6_ShortCircuit ==
  /\ (Running /\ OrganizerExplicitName(event.organizer) # <<>>) => organizer_calls = <<>>
  /\ JustResolved =>
       /\ AttendeeExplicitName(CurrentAttendee) # <<>> => calls = <<>>
       /\ Truthy(ResultOf(calls, "people")) => CallCount(calls, "gmail") = 0
       /\ \A j, k \in 1..Len(calls) :
            (calls[j].api = "people" /\ calls[k].api = "gmail") => j < k

C6_Witness ==
  /\ JustResolved
  /\ mode = "ENHANCED"
  /\ gmail_service
  /\ Truthy(ResultOf(calls, "people"))
  /\ Len(calls) = 1
  /\ LastInfo.display_name = Name_dir

\* C7: a lookup whose transport raises returns no name and nothing escapes
\* the handler; the chain goes on to the next source (the mailbox if it is
\* available, and the heuristic when no lookup gave a name), no lookup is
\* made twice for an attendee, and the handler returns an entry for every
\* attendee that has an email.
C7_LookupFailureIsNoName ==
  /\ pc # "crashed"
  /\ \A k \in 1..Len(calls) : calls[k].failed => calls[k].result = NoneVal
  /\ \A k \in 1..Len(organizer_calls) :
       organizer_calls[k].failed => organizer_calls[k].result = NoneVal
  /\ (JustResolved /\ mode = "ENHANCED") =>
       /\ CallCount(calls, "people") <= 1
       /\ CallCount(calls, "gmail") <= 1
       /\ (AnyFailed(calls) /\ calls[1].failed /\ calls[1].api = "people" /\ gmail_service)
            => CallCount(calls, "gmail") = 1
       /\ (calls # <<>> /\ \A k \in 1..Len(calls) : ~Truthy(calls[k].result))
            => LastInfo.display_name = _extract_name_from_email(CurrentAttendee.email)
  /\ pc = "done" =>
       Len(attendees_info) =
         Cardinality({k \in 1..Len(event.attendees) : event.attendees[k].email # <<>>})

C7_Witness ==
  /\ pc = "done"
  /\ failed
  /\ ~AnyFailed(calls)
  /\ ~AnyFailed(organizer_calls)
  /\ Len(event.attendees) = 2
  /\ Len(attendees_info) = 2

\* C8: in each mode, an attendee that carries the email, displayName and
\* 'name' of the organizer, and no 'cn', gets the organizer's name when the
\* directory answered the same for both.
C8_OrganizerSameChain ==
  (/\ JustResolved
   /\ CurrentAttendee.email = event.organizer.email
   /\ CurrentAttendee.displayName = event.organizer.displayName
   /\ CurrentAttendee.name = event.organizer.name
   /\ CurrentAttendee.cn = <<>>
   /\ ResultOf(calls, "people") = ResultOf(organizer_calls, "people"))
    => LastInfo.display_name = organizer_name

\* C9: an organizer without email and without name fields resolves to the
\* name "Unknown", in both modes, and the handler returns.
C9_OrganizerUnknown ==
  /\ pc # "crashed"
  /\ (Running /\ event.organizer = NoOrganizer) => organizer_name = Unknown

\* C10: the emails of the attendee list are the non-empty emails of the raw
\* attendees gone through so far, in the raw order and with repetitions.
C10_AttendeeEmailsSubsequence ==
  Running =>
    EmailsOf(attendees_info) =
      SelectSeq([k \in 1..i |-> event.attendees[k].email], NonEmptyStr)

C10_Witness ==
  /\ pc = "done"
  /\ Len(event.attendees) = 2
  /\ Len(attendees_info) = 2
  /\ attendees_info[1].email = attendees_info[2].email

C10_WitnessDropped ==
  /\ pc = "done"
  /\ Len(event.attendees) = 2
  /\ event.attendees[1].email = <<>>
  /\ EmailsOf(attendees_info) = <<Email_12>>

----------------------------------------------------------------------------
(* Properties of the day aggregate                                         *)

\* get_attendee_info_for_day is in its loops or has returned
InAggregation ==
  /\ entry_point = "get_attendee_info_for_day"
  /\ day_pc \in {"aggregating", "returned"}
  /\ day_events.total_events > 0

\* get_attendee_info_for_day has returned the aggregate of a day with events
Aggregated ==
  InAggregation /\ day_pc = "returned"

\* the attendee entries of the meetings, in meeting and attendee order
RECURSIVE AttendeeEntries(_)
AttendeeEntries(meetings) ==
  IF meetings = <<>> THEN <<>>
  ELSE meetings[1].attendees \o AttendeeEntries(Tail(meetings))

\* the attendee entries the loops have gone through
EntriesSeen ==
  AttendeeEntries(SubSeq(day_events.meetings, 1, meeting_index))
    \o (IF meeting_index < Len(day_events.meetings)
          THEN SubSeq(day_events.meetings[meeting_index + 1].attendees, 1, attendee_index)
          ELSE <<>>)

EntriesWith(entries, email) ==
  {k \in 1..Len(entries) : entries[k].email = email}

LastEntryWith(entries, email) ==
  entries[CHOOSE k \in EntriesWith(entries, email) :
            \A j \in EntriesWith(entries, email) : j <= k]

FirstSeenAt(entries, email) ==
  CHOOSE k \in EntriesWith(entries, email) :
    \A j \in EntriesWith(entries, email) : k <= j

DayEmails ==
  {Email_js, Email_12}

\* C11: attendee_frequency[email] is the number of attendee entries with
\* that email in the meetings gone through (all of them at the return), an
\* email of no entry has no item, and no email has two items.
C11_FrequencyCountsEntries ==
  InAggregation =>
    /\ \A email \in DayEmails :
         /\ DictGet(attendee_frequency, email, 0)
              = Cardinality(EntriesWith(EntriesSeen, email))
         /\ DictHas(attendee_frequency, email) <=> EntriesWith(EntriesSeen, email) # {}
    /\ \A k \in 1..Len(attendee_frequency) : attendee_frequency[k].key \in DayEmails
    /\ \A j, k \in 1..Len(attendee_frequency) :
         attendee_frequency[j].key = attendee_frequency[k].key => j = k
    /\ Aggregated =>
         \A k \in 1..Len(day_result.most_frequent_attendees) :
           LET item == day_result.most_frequent_attendees[k]
           IN  item.meeting_count
                 = Cardinality(EntriesWith(AttendeeEntries(day_events.meetings), item.email))

C11_Witness ==
  /\ Aggregated
  /\ Len(day_events.meetings) = 2
  /\ DictGet(attendee_frequency, Email_js, 0) = 2
  /\ DictGet(attendee_frequency, Email_12, 0) = 1

\* C12: the name attendee_name_mapping has for an email, and the 'name' of
\* the email's most_frequent_attendees entry, is the display name of the
\* last attendee entry with that email in meeting order.
C12_LastWriteWins ==
  InAggregation =>
    /\ \A email \in DayEmails :
         EntriesWith(EntriesSeen, email) # {} =>
           /\ DictHas(attendee_name_mapping, email)
           /\ DictGet(attendee_name_mapping, email, email)
                = LastEntryWith(EntriesSeen, email).display_name
    /\ Aggregated =>
         \A k \in 1..Len(day_result.most_frequent_attendees) :
           LET item == day_result.most_frequent_attendees[k]
           IN  item.name
                 = LastEntryWith(AttendeeEntries(day_events.meetings), item.email).display_name

C12_Witness ==
  /\ Aggregated
  /\ Len(day_events.meetings) = 2
  /\ Len(day_events.meetings[1].attendees) = 1
  /\ Len(day_events.meetings[2].attendees) >= 1
  /\ day_events.meetings[1].attendees[1].email = Email_js
  /\ day_events.meetings[1].attendees[1].display_name = Name_dn
  /\ day_events.meetings[2].attendees[1].email = Email_js
  /\ day_events.meetings[2].attendees[1].display_name = Name_nm
  /\ DictGet(attendee_name_mapping, Email_js, <<>>) = Name_nm
  /\ day_result.most_frequent_attendees[1].name = Name_nm

\* C13: unique_attendees is the number of distinct emails of the day's
\* attendee entries, which is the number of items of attendee_frequency,
\* and is at most the sum of the meetings' attendee counts; two emails
\* under one display name count as two.
C13_UniqueAttendeesByEmail ==
  Aggregated =>
    /\ day_result.unique_attendees = Len(attendee_frequency)
    /\ day_result.unique_attendees
         = Cardinality({email \in DayEmails :
                          EntriesWith(AttendeeEntries(day_events.meetings), email) # {}})
    /\ Len(AttendeeEntries(day_events.meetings)) >= day_result.unique_attendees

C13_Witness ==
  /\ Aggregated
  /\ day_result.unique_attendees = 2
  /\ \A k \in 1..Len(attendee_name_mapping) : attendee_name_mapping[k].value = Name_dn

\* C14: most_frequent_attendees is in non-increasing order of meeting_count,
\* and of two entries with the same count the one whose email was met first,
\* scanning meetings and attendees in order, comes first.
C14_MostFrequentStable ==
  Aggregated =>
    LET top     == day_result.most_frequent_attendees
        entries == AttendeeEntries(day_events.meetings)
    IN  \A j, k \in 1..Len(top) :
          j < k =>
            /\ top[j].meeting_count >= top[k].meeting_count
            /\ top[j].meeting_count = top[k].meeting_count
                 => FirstSeenAt(entries, top[j].email) < FirstSeenAt(entries, top[k].email)

C14_Witness ==
  /\ Aggregated
  /\ Len(day_result.most_frequent_attendees) = 2
  /\ day_result.most_frequent_attendees[1].email = Email_12
  /\ day_result.most_frequent_attendees[2].email = Email_js
  /\ day_result.most_frequent_attendees[1].meeting_count = 2
  /\ day_result.most_frequent_attendees[2].meeting_count = 2

C14_WitnessReordered ==
  /\ Aggregated
  /\ Len(day_result.most_frequent_attendees) = 2
  /\ AttendeeEntries(day_events.meetings)[1].email = Email_12
  /\ day_result.most_frequent_attendees[1].email = Email_js
  /\ day_result.most_frequent_attendees[1].meeting_count = 2
  /\ day_result.most_frequent_attendees[2].meeting_count = 1

\* C15: for a day on which the calendar lists no event, the aggregate of
\* get_attendee_info_for_day carries a 'no events' marker, reports
\* total_meetings = 0 and unique_attendees = 0, and nothing is raised.
C15_NoEventsAggregate ==
  (entry_point = "get_attendee_info_for_day" /\ list_outcome = Listed(<<>>)) =>
    /\ day_pc = "returned"
    /\ "message" \in DOMAIN day_result
    /\ "total_meetings" \in DOMAIN day_result
    /\ day_result.total_meetings = 0
    /\ "unique_attendees" \in DOMAIN day_result
    /\ day_result.unique_attendees = 0

\* what the caller of the day-level method gets to see of the outcome
Reported ==
  IF entry_point = "get_events_for_day" THEN day_events.summary_info ELSE day_result

\* what the caller sees for a valid day on which the calendar lists no event
ReportedForEmptyDay ==
  IF entry_point = "get_events_for_day"
    THEN _analyze_day_events(<<>>)
    ELSE NoEventsMessage

\* what the caller sees when the calendar raises HttpError on a valid day
ReportedForHttpError ==
  IF entry_point = "get_events_for_day"
    THEN [error |-> HttpErrorText]
    ELSE NoEventsMessage

\* C16: a day-level method called with a date that does not parse returns a
\* result that reports an error, and the result is neither the one of a
\* calendar failure nor the one of a valid day without events.
C16_MalformedDateReported ==
  (day_pc = "returned" /\ ~strptime_Ymd(target_date)) =>
    /\ "error" \in DOMAIN Reported
    /\ Reported # ReportedForHttpError
    /\ Reported # ReportedForEmptyDay

\* C29: the per-meeting view of the aggregate has one entry per meeting,
\* also for meetings that share a title: meeting_attendee_details has
\* total_meetings entries, and the attendee list of every meeting of the
\* day is the one of the entry found under the meeting's title.
C29_OneEntryPerMeeting ==
  Aggregated =>
    /\ Len(day_result.meeting_attendee_details) = day_result.total_meetings
    /\ \A k \in 1..Len(day_events.meetings) :
         LET meeting == day_events.meetings[k]
         IN  /\ DictHas(day_result.meeting_attendee_details, meeting.meeting_title)
             /\ DictGet(day_result.meeting_attendee_details, meeting.meeting_title,
                        MeetingAttendeeDetails(meeting)).attendees
                  = MeetingAttendeeDetails(meeting).attendees

\* an entry point has returned
EntryReturned(entry) ==
  entry_point = entry /\ day_pc = "returned"

\* the events the entry points of single meetings can have processed
ProcessedBySingle ==
  IF entry_point = "search_meetings_by_keyword"
    THEN {TakeFirst(list_outcome.items, n) : n \in SearchLimits}
    ELSE {TakeFirst(list_outcome.items, 1)}

\* C30: after any sequence of set_enhanced_extraction calls,
\* get_events_for_day processes every event in ENHANCED mode if the most
\* recent call passed True (the environment's default when there was no
\* call) and in BASIC mode otherwise; get_next_meeting_info,
\* get_meeting_info_by_id and search_meetings_by_keyword process in BASIC
\* mode, whatever the setting, and what they return is what
\* extract_attendee_info gives without any lookup.
C30_ModeFollowsLastSetting ==
  /\ EntryReturned("get_events_for_day") =>
       /\ Len(handler_calls) = Len(list_outcome.items)
       /\ \A k \in 1..Len(handler_calls) :
            handler_calls[k] = IF last_enabled THEN "process_meeting_enhanced"
                               ELSE "process_meeting"
       /\ day_events.meetings \in ProcessedMeetings(list_outcome.items, last_enabled,
                                                    people_service, gmail_service)
  /\ \A entry \in {"get_next_meeting_info", "get_meeting_info_by_id",
                   "search_meetings_by_keyword"} :
       EntryReturned(entry) =>
         /\ \A k \in 1..Len(handler_calls) : handler_calls[k] = "process_meeting"
         /\ \E events \in ProcessedBySingle :
              meeting_infos = [k \in 1..Len(events) |-> process_meeting(events[k])]

\* the environment's default was off, the setting was turned on and off
\* again, and get_events_for_day processed an event in BASIC mode
C30_Witness ==
  /\ EntryReturned("get_events_for_day")
  /\ set_calls = 2
  /\ ~last_enabled
  /\ people_service
  /\ handler_calls = <<"process_meeting">>

\* the setting was turned on and get_events_for_day processed two events
\* in ENHANCED mode
C30_WitnessEnhanced ==
  /\ EntryReturned("get_events_for_day")
  /\ set_calls = 1
  /\ last_enabled
  /\ handler_calls = <<"process_meeting_enhanced", "process_meeting_enhanced">>

\* the setting is on and a search processed its events in BASIC mode
C30_WitnessSearch ==
  /\ EntryReturned("search_meetings_by_keyword")
  /\ last_enabled
  /\ people_service
  /\ gmail_service
  /\ Len(meeting_infos) = 2
  /\ Len(list_outcome.items) = 2
  /\ Len(list_outcome.items[2].attendees) > 0
  /\ handler_calls = <<"process_meeting", "process_meeting">>

----------------------------------------------------------------------------
(* Properties of the email heuristic                                       *)

HeuristicCalled ==
  heuristic_pc \in {"called", "compared"}

\* the local part the heuristic classifies: the one of the address after
\* the suffix stripping of lines 362-363
ClassifiedLocalPart ==
  StrippedLocalPart(local_base \o suffix \o Domain_d)

CountChar(s, c) ==
  Cardinality({k \in 1..Len(s) : s[k] = c})

\* no leading, trailing or doubled space
NoStraySpaces(s) ==
  /\ s # <<>> => (s[1] # " " /\ s[Len(s)] # " ")
  /\ \A k \in 1..(Len(s) - 1) : ~(s[k] = " " /\ s[k + 1] = " ")

\* the title-cased non-empty parts, joined by one space
TitledParts(local_part, sep) ==
  JoinTitledParts(StrSplit(local_part, sep))

\* C17: for a classified local part that contains '.': two parts with a
\* one-character first part give '<that character upper-cased> <last part
\* title-cased>'; every other give the title-cased parts joined by one
\* space, without leading, trailing or doubled spaces.
C17_DotRule ==
  (HeuristicCalled /\ HasChar(ClassifiedLocalPart, ".")) =>
    LET parts == StrSplit(ClassifiedLocalPart, ".")
    IN  IF Len(parts) = 2 /\ Len(parts[1]) = 1
          THEN name_full = <<CharUpper(parts[1][1])>> \o <<" ">> \o StrTitle(parts[2])
          ELSE /\ name_full = TitledParts(ClassifiedLocalPart, ".")
               /\ NoStraySpaces(name_full)

\* C18: the separator rules are tried in the order '.', '_', '-' and the
\* first that applies is the only one used: the separators of the later
\* rules stay in the name; the '_' and the '-' rule give the title-cased
\* parts joined by one space.
C18_SeparatorOrder ==
  HeuristicCalled =>
    LET local_part == ClassifiedLocalPart
    IN  IF HasChar(local_part, ".")
          THEN /\ CountChar(name_full, ".") = 0
               /\ CountChar(name_full, "_") = CountChar(local_part, "_")
               /\ CountChar(name_full, "-") = CountChar(local_part, "-")
        ELSE IF HasChar(local_part, "_")
          THEN /\ name_full = TitledParts(local_part, "_")
               /\ CountChar(name_full, "_") = 0
               /\ CountChar(name_full, "-") = CountChar(local_part, "-")
               /\ NoStraySpaces(name_full)
        ELSE IF HasChar(local_part, "-")
          THEN /\ name_full = TitledParts(local_part, "-")
               /\ CountChar(name_full, "-") = 0
               /\ NoStraySpaces(name_full)
        ELSE TRUE

C18_Witness ==
  /\ HeuristicCalled
  /\ local_base = <<"a",".","b","_","c","-","d">>
  /\ suffix = <<>>
  /\ name_full = <<"A"," ","B","_","C","-","D">>

C18_WitnessUnderscore ==
  /\ HeuristicCalled
  /\ local_base = <<"j","o","h","n","_","s","m","i","t","h">>
  /\ name_full = <<"J","o","h","n"," ","S","m","i","t","h">>

C18_WitnessHyphen ==
  /\ HeuristicCalled
  /\ local_base = <<"m","a","r","y","-","j","o","n","e","s">>
  /\ name_full = <<"M","a","r","y"," ","J","o","n","e","s">>

\* the places of a token where a lowercase letter is followed by an
\* uppercase letter
CamelBoundaries(token) ==
  {k \in 1..(Len(token) - 1) : IsLower(token[k]) /\ IsUpper(token[k + 1])}

\* C19: a classified local part without separator in which a lowercase
\* letter is followed by an uppercase letter is split at every such place,
\* the pieces joined by a space: johnSmith gives 'John Smith'.
C19_CamelCaseSplit ==
  (/\ HeuristicCalled
   /\ ~HasChar(ClassifiedLocalPart, ".")
   /\ ~HasChar(ClassifiedLocalPart, "_")
   /\ ~HasChar(ClassifiedLocalPart, "-")
   /\ CamelBoundaries(ClassifiedLocalPart) # {}) =>
    /\ CountChar(name_full, " ") = Cardinality(CamelBoundaries(ClassifiedLocalPart))
    /\ StrLower(SelectSeq(name_full, LAMBDA c : c # " ")) = StrLower(ClassifiedLocalPart)
    /\ ClassifiedLocalPart = <<"j","o","h","n","S","m","i","t","h">>
         => name_full = <<"J","o","h","n"," ","S","m","i","t","h">>

\* zero or more of . _ - followed by zero or more digits
IsStrippedSuffix(s) ==
  \E k \in 0..Len(s) :
    /\ \A j \in 1..k : s[j] \in SeparatorChars
    /\ \A j \in (k + 1)..Len(s) : s[j] \in DigitChars

\* C20: for a local part L that does not end in a digit or in one of . _ -
\* and a suffix S of separators followed by digits, the name for L + S is
\* the name for L.
C20_SuffixInvisible ==
  (/\ heuristic_pc = "compared"
   /\ local_base # <<>> => local_base[Len(local_base)] \notin DigitChars \cup SeparatorChars
   /\ IsStrippedSuffix(suffix)) =>
    name_full = name_base

C20_Witness ==
  /\ heuristic_pc = "compared"
  /\ local_base = <<"j","s","m","i","t","h">>
  /\ suffix = <<"4","2">>
  /\ name_full = <<"J","s","m","i","t","h">>
  /\ name_base = name_full

C20_WitnessSeparatorsThenDigits ==
  /\ heuristic_pc = "compared"
  /\ local_base = <<"j",".","S">>
  /\ suffix = <<".","-","4","2">>
  /\ name_full = <<"J"," ","S">>
  /\ name_base = name_full

\* a token the location rule of _smart_split_name is reached with: letters
\* only, no place where a lowercase letter is followed by an uppercase
\* letter once title-cased, and none of the prefixes at its start
ReachesLocationRule(token) ==
  /\ token # <<>>
  /\ \A k \in 1..Len(token) : IsLower(token[k]) \/ IsUpper(token[k])
  /\ \A k \in 1..Len(common_prefixes) :
       ~StartsWith(StrLower(token), common_prefixes[k])

\* C22: when the location rule splits a token into two words, both words
\* have at least 3 characters; a token it does not split is returned whole,
\* title-cased.
C22_LocationSplitWords ==
  (HeuristicCalled /\ ReachesLocationRule(ClassifiedLocalPart)) =>
    LET words == StrSplit(name_full, " ")
    IN  IF HasChar(name_full, " ")
          THEN /\ Len(words) = 2
               /\ Len(words[1]) >= 3
               /\ Len(words[2]) >= 3
          ELSE name_full = StrTitle(ClassifiedLocalPart)

----------------------------------------------------------------------------
(* ENHANCED against BASIC                                                  *)

\* no lookup of the log returned a non-empty name
NothingContributed(log) ==
  \A k \in 1..Len(log) : ~Truthy(log[k].result)

\* C28: ENHANCED gives what BASIC gives when the lookups contribute nothing:
\* the organizer's name and email are those of extract_attendee_info when
\* the organizer's lookup gave no name, the entry of an attendee whose
\* lookups gave no name (or were not made) is the entry
\* extract_attendee_info appends, and with both services unavailable the
\* whole attendee list is the one of extract_attendee_info.
C28_EnhancedDegradesToBasic ==
  (Running /\ mode = "ENHANCED") =>
    /\ NothingContributed(organizer_calls) =>
         /\ organizer_name = BasicOrganizerName(event.organizer)
         /\ organizer_email = event.organizer.email
    /\ (JustResolved /\ NothingContributed(calls)) =>
         LastInfo = AttendeeInfo(BasicAttendeeName(CurrentAttendee), CurrentAttendee.email)
    /\ EmailsOf(attendees_info) = EmailsOf(BasicAttendees(SubSeq(event.attendees, 1, i)))
    /\ (~people_service /\ ~gmail_service) =>
         attendees_info = BasicAttendees(SubSeq(event.attendees, 1, i))

\* both services are asked about an attendee without explicit name, neither
\* gives a name, and the entry's name is the one of the heuristic
C28_Witness ==
  /\ JustResolved
  /\ mode = "ENHANCED"
  /\ Len(calls) = 2
  /\ NothingContributed(calls)
  /\ CurrentAttendee.email = Email_js
  /\ LastInfo.display_name = _extract_name_from_email(Email_js)

C28_WitnessUnavailable ==
  /\ pc = "done"
  /\ mode = "ENHANCED"
  /\ ~people_service
  /\ ~gmail_service
  /\ Len(attendees_info) = 2
  /\ \A k \in 1..2 : AttendeeExplicitName(event.attendees[k]) = <<>>
  /\ OrganizerExplicitName(event.organizer) = <<>>
  /\ event.organizer.email # <<>>

----------------------------------------------------------------------------
(* Properties of the mailbox lookup on its own                             *)

LookupReturned ==
  lookup_pc = "returned"

\* the name the From header of the k-th listed message yields, None when
\* the fetch of the message fails
NameOfMessage(k) ==
  LET r == MessageName(lookup_response.messages[k], lookup_email)
  IN  IF r.kind = "exc" THEN NoneVal ELSE r

\* C21: every name the From-header parsing returns is non-empty and differs
\* from the address that was searched for, whatever the header value
C21_ReturnedNameIsAName ==
  LookupReturned /\ lookup_name.kind = "str"
    => lookup_name.val # <<>> /\ lookup_name.val # lookup_email

\* C23: the mailbox step takes its name from the most recent message only:
\* when messages are listed, what it returns is what the From header of
\* the first one yields
C23_OnlyMostRecentMessage ==
  LookupReturned /\ gmail_service /\ ~lookup_response.raises
                 /\ Len(lookup_response.messages) >= 1
    => lookup_name = NameOfMessage(1)

----------------------------------------------------------------------------
(* Properties of extract_meeting_info_with_ai                              *)

\* the text-generation collaborator failed: no key, the call raised, or the
\* reply is not valid JSON
CollaboratorFailed ==
  \/ ~openai_api_key
  \/ ai_outcome.kind = "raises"
  \/ ai_outcome.kind = "reply" /\ ai_outcome.content.json \in {"not_text", "invalid"}

\* C24: extract_meeting_info_with_ai never raises; when there is no key,
\* the call raises or the reply is not valid JSON it returns the calendar
\* title unchanged with the names of extract_person_names_basic.
C24_AiFailureFallsBack ==
  /\ ai_pc # "raised"
  /\ (ai_pc = "returned" /\ CollaboratorFailed) =>
       ai_result = TitleAndNames(ai_title, extract_person_names_basic(ai_description))

C24_Witness ==
  /\ ai_pc = "returned"
  /\ openai_api_key
  /\ ai_outcome.kind = "reply"
  /\ ai_outcome.content.json = "invalid"
  /\ ai_title = Title_s
  /\ ai_result = TitleAndNames(Title_s, <<<<"J","o"," ","L","i">>, <<"A","l"," ","P","o">>>>)

C24_WitnessRaises ==
  /\ ai_pc = "returned"
  /\ openai_api_key
  /\ ai_outcome.kind = "raises"
  /\ ai_result.person_names = <<<<"J","o","h","n"," ","S","m","i","t","h">>>>

C24_WitnessNoKey ==
  /\ ai_pc = "returned"
  /\ ~openai_api_key
  /\ ai_description = <<"A","l"," ","P","o"," ","i","s"," ","w","i","t","h"," ","A","l"," ","P","o">>
  /\ ai_result.person_names = <<<<"A","l"," ","P","o">>>>

\* a reply that is used: the title and the names are the reply's
C24_WitnessReplyUsed ==
  /\ ai_pc = "returned"
  /\ ai_title = Title_s
  /\ ai_result = TitleAndNames(Title_ai, <<Name_bo>>)

----------------------------------------------------------------------------
(* Properties of the tools                                                 *)

ToolReturned(name) ==
  tool_pc = "returned" /\ tool = name

\* the lines of the tool's text that have the label
LinesLabelled(label) ==
  SelectSeq(tool_output, LAMBDA line : line.label = label)

\* the day asked for is a date on which the calendar lists at least one event
DayHasEvents ==
  strptime_Ymd(target_date) /\ list_outcome.kind = "items" /\ list_outcome.items # <<>>

\* the day asked for is a date on which the calendar lists no event
DayHasNoEvents ==
  strptime_Ymd(target_date) /\ list_outcome = Listed(<<>>)

\* C25: the text of get_attendees_for_day gives the aggregate's number of
\* unique attendees as 'Total Unique Attendees' and lists, for each meeting
\* of the aggregate, the meeting with its attendees.
C25_ToolShowsAggregate ==
  (ToolReturned("get_attendees_for_day") /\ "unique_attendees" \in DOMAIN day_result) =>
    /\ Len(LinesLabelled("Total Unique Attendees")) = 1
    /\ LinesLabelled("Total Unique Attendees")[1].value = IntStr(day_result.unique_attendees)
    /\ Len(LinesLabelled("meeting")) = Len(day_result.meeting_attendee_details)

\* C26: for a date with n >= 1 events the text of get_day_events is a
\* listing with exactly n entries and not an error, and the text is
\* 'No events found' only when the day has no events.
C26_DayEventsListing ==
  ToolReturned("get_day_events") =>
    /\ DayHasEvents =>
         /\ LinesLabelled("Error getting day events") = <<>>
         /\ Len(LinesLabelled("event")) = Len(list_outcome.items)
    /\ LinesLabelled("No events found for") # <<>> => DayHasNoEvents

----------------------------------------------------------------------------
(* Properties of the server's lazily built agents                          *)

\* the requests an ensure_ function has returned the agent `name` to
Served(name) ==
  {t \in Requests : returned_agent[t][name] # NotAnAgent}

\* C27: whatever the interleaving of the requests, each of the two agents
\* is constructed at most once in the process and every request is
\* returned the same instance of it.
C27_OneInstancePerProcess ==
  \A name \in {"calendar_agent", "meeting_agent"} :
    /\ constructions[name] <= 1
    /\ \A t, u \in Served(name) : returned_agent[t][name] = returned_agent[u][name]

====
